---- MODULE Spec2Model ----
(***************************************************************************)
(* A model of gdb/tracepoint.c: the tracepoint registry, the remote        *)
(* tracepoint protocol driver and the trace-frame cursor.                  *)
(*                                                                         *)
(* A user command is run from the prompt (pc = "idle").  A command that    *)
(* talks to the stub blocks in remote_get_noisy_reply (pc = "wait") once   *)
(* per packet it sent; every packet the stub delivers is one step.  When   *)
(* the command has returned or has been aborted by error() the model is    *)
(* at pc = "done" with the outcome recorded; Prompt takes it back to the   *)
(* command loop.  wire, steps, console, outcome and pre are history        *)
(* variables about the command being run; Prompt forgets them.  The        *)
(* actions command reads its lines at a prompt of its own (pc =            *)
(* "actions"), one line per step.                                          *)
(***************************************************************************)
EXTENDS Integers, Sequences, FiniteSets, TLC

(***************************************************************************)
(* Bounds of the model.                                                    *)
(***************************************************************************)
\* tracepoints created in one session (caps tracepoint_count)
MaxTP == 1
\* the same, for sessions of registry commands and tstart only
MaxTPWide == 2
\* memranges one collection list is given beyond its first listsize
MaxBeyond == 2
\* largest trace frame number the user asks for
MaxFrame == 1
\* console packets the stub interleaves into one command
MaxNoise == 1
\* console packets a logged line interleaves into one command
MaxChatter == 2
\* tracepoint arguments given to one enable/disable/delete command
MaxArgs == 1
\* memory ranges handed to one collection list
MaxRanges == 3
\* the gap up to which the target lets neighbouring memory ranges be merged
MAX_REGISTER_VIRTUAL_SIZE == 2
\* registers of the target
NUM_REGS == 8
\* locations one "trace" argument decodes to
MaxSals == 2
\* action lines accepted into one action list
MaxLines == 2
\* sub-prompts entered and left without immediate_quit being reset
MaxQuit == 1
\* action lines accepted into the action list of a session that only
\* enters and downloads actions
MaxScript == 5

VARIABLES
  tracepoint_chain,   \* the chain, first to last: a sequence of tracepoints
  tracepoint_count,   \* number of last tracepoint made
  traceframe_number,  \* number of last traceframe collected
  tracepoint_number,  \* tracepoint for last traceframe collected
  traceframe_fun,     \* name of the function of the frame, "" for NULL
  traceframe_sal,     \* symtab and line of the frame
  ivar,               \* the convenience variables this file sets
  steps,              \* cursor primitives run by the current command, in order
  remote,             \* target_is_remote ()
  pc,                 \* "idle", "wait", "actions", "done" or "crashed"
  cmd,                \* the command being run and where it waits
  wire,               \* packets sent by the current command and, where the
                      \* caller compares it with "OK", the reply, in order
  console,            \* output forwarded to the console by the current command
  heard,              \* packets a logged line delivered to the current command
  tracepoint_list,    \* what the tracepoint being encoded collects when hit
  stepping_list,      \* what it collects while stepping
  job,                \* a run of the collection functions on given ranges
  immediate_quit,     \* nonzero: a control-C quits at once
  outcome,            \* "none", "ok" (returned) or "error" (aborted by error ())
  pre,                \* the cursor as it was when the current command began
  assigned            \* numbers given to tracepoints so far

vars == <<tracepoint_chain, tracepoint_count, traceframe_number,
          tracepoint_number, traceframe_fun, traceframe_sal, ivar, steps,
          remote, pc, cmd, wire, console, heard, outcome, pre, assigned,
          tracepoint_list, stepping_list, job, immediate_quit>>

(***************************************************************************)
(* Values of convenience variables: void (never set), an int, a char       *)
(* pointer (only the null pointer occurs) or a char array.                 *)
(***************************************************************************)
VoidV == [t |-> "void", i |-> 0, s |-> ""]
IntV(n) == [t |-> "int", i |-> n, s |-> ""]
NullPtrV == [t |-> "ptr", i |-> 0, s |-> ""]
StrV(str) == [t |-> "str", i |-> 0, s |-> str]

IvarNames == {"tpnum", "trace_frame", "tracepoint",
              "trace_func", "trace_file", "trace_line"}

(***************************************************************************)
(* The symbol table, as far as this file asks it: one address with full    *)
(* line and function information, one with none.                           *)
(***************************************************************************)
NoSal == [pc |-> 0, line |-> 0, symtab |-> ""]

find_pc_line(a) ==
  IF a = 64 THEN [pc |-> 64, line |-> 10, symtab |-> "a.c"]
  ELSE [pc |-> a, line |-> 0, symtab |-> ""]

find_pc_function(a) == IF a = 64 THEN "main" ELSE ""

\* the location the user gives to "trace"
TraceSals == {find_pc_line(64)}

\* pc of the frame the target shows after a tfind; -1 is an all-ones pc
FramePCs == {64, 128, -1}

(***************************************************************************)
(* The counters, the cursor and the convenience variables as one record,   *)
(* so that the primitives below compose in the order the code calls them.  *)
(***************************************************************************)
Cur ==
  [count |-> tracepoint_count, tfn |-> traceframe_number,
   tpn |-> tracepoint_number, fun |-> traceframe_fun,
   sal |-> traceframe_sal, iv |-> ivar, steps |-> steps]

\* the collection lists and the run that fills them
Lists == <<tracepoint_list, stepping_list, job>>

\* no step that moves the cursor touches the collection lists
SetCur(m) ==
  /\ UNCHANGED <<Lists, immediate_quit>>
  /\ tracepoint_count' = m.count
  /\ traceframe_number' = m.tfn
  /\ tracepoint_number' = m.tpn
  /\ traceframe_fun' = m.fun
  /\ traceframe_sal' = m.sal
  /\ ivar' = m.iv
  /\ steps' = m.steps

CurKept ==
  UNCHANGED <<tracepoint_count, traceframe_number, tracepoint_number,
              traceframe_fun, traceframe_sal, ivar, steps>>

CurUnchanged == CurKept /\ UNCHANGED <<Lists, immediate_quit>>

set_internalvar(m, name, val) == [m EXCEPT !.iv[name] = val]

\* set_tracepoint_count leaving the convenience variable alone
set_tracepoint_count_silent(m, num) == [m EXCEPT !.count = num]

set_tracepoint_count(m, num) ==
  set_internalvar([m EXCEPT !.count = num], "tpnum", IntV(num))

set_traceframe_num(m, num) ==
  set_internalvar([m EXCEPT !.tfn = num, !.steps = Append(@, "frame_num")],
                  "trace_frame", IntV(num))

\* set_tracepoint_num writing the variable the trace command owns
set_tracepoint_num_into_tpnum(m, num) ==
  set_internalvar([m EXCEPT !.tpn = num, !.steps = Append(@, "tp_num")],
                  "tpnum", IntV(num))

set_tracepoint_num(m, num) ==
  set_internalvar([m EXCEPT !.tpn = num, !.steps = Append(@, "tp_num")],
                  "tracepoint", IntV(num))

set_traceframe_context(m, trace_pc) ==
  LET m0 == [m EXCEPT !.steps = Append(@, "context")] IN
  IF trace_pc = -1
  THEN set_internalvar(
         set_internalvar(
           set_internalvar([m0 EXCEPT !.fun = "", !.sal = NoSal],
                           "trace_func", NullPtrV),
           "trace_file", NullPtrV),
         "trace_line", IntV(-1))
  ELSE LET sal == find_pc_line(trace_pc)
           fun == find_pc_function(trace_pc)
           m1 == set_internalvar([m0 EXCEPT !.fun = fun, !.sal = sal],
                                 "trace_line", IntV(sal.line))
           m2 == set_internalvar(m1, "trace_func",
                                 IF fun = "" THEN NullPtrV ELSE StrV(fun))
       IN set_internalvar(m2, "trace_file",
                          IF sal.symtab = "" THEN NullPtrV
                          ELSE StrV(sal.symtab))

\* frame.c and regcache, seen from here: only that they were called, and when
flush_cached_frames(m) == [m EXCEPT !.steps = Append(@, "flush")]
registers_changed(m) == [m EXCEPT !.steps = Append(@, "regs")]
select_frame(m) == [m EXCEPT !.steps = Append(@, "select")]

(***************************************************************************)
(* Packets from the stub are strings, modelled as sequences of characters. *)
(***************************************************************************)
HexDigits == <<"0", "1", "2", "3", "4", "5", "6", "7", "8", "9",
               "a", "b", "c", "d", "e", "f">>
HexUpper == <<"0", "1", "2", "3", "4", "5", "6", "7", "8", "9",
              "A", "B", "C", "D", "E", "F">>

\* strtol reading decimal digits only
IsDigit(c) == \E k \in 1..10 : HexDigits[k] = c

IsHex(c) == \E k \in 1..16 : HexDigits[k] = c \/ HexUpper[k] = c
HexVal(c) == (CHOOSE k \in 1..16 : HexDigits[k] = c \/ HexUpper[k] = c) - 1

\* s[i], or "" for the terminating NUL and beyond
At(s, i) == IF i >= 1 /\ i <= Len(s) THEN s[i] ELSE ""

RECURSIVE HexRun(_, _, _)
\* the digits of s from i on: [val, next]
HexRun(s, i, acc) ==
  IF IsHex(At(s, i)) THEN HexRun(s, i + 1, acc * 16 + HexVal(At(s, i)))
  ELSE [val |-> acc, next |-> i]

\* strtol (s + i, &end, 16): an optional sign, then hex digits; with no
\* digit the value is 0 and end is where the scan began
strtol16(s, i) ==
  LET neg == At(s, i) = "-"
      j == IF At(s, i) \in {"-", "+"} THEN i + 1 ELSE i
      k == IF At(s, j) = "0" /\ At(s, j + 1) \in {"x", "X"}
              /\ IsHex(At(s, j + 2))
           THEN j + 2 ELSE j
      r == HexRun(s, k, 0)
  IN IF r.next = k THEN [val |-> 0, next |-> i]
     ELSE [val |-> IF neg THEN 0 - r.val ELSE r.val, next |-> r.next]

RECURSIVE HexRunToTag(_, _, _)
\* the digits of s from i up to the next F: [val, next]
HexRunToTag(s, i, acc) ==
  IF IsHex(At(s, i)) /\ At(s, i) # "F"
  THEN HexRunToTag(s, i + 1, acc * 16 + HexVal(At(s, i)))
  ELSE [val |-> acc, next |-> i]

RECURSIVE tfind_reply_tagged(_, _, _, _)
\* a parsing loop in which a number ends where the next token begins
tfind_reply_tagged(reply, i, frameno, tracept) ==
  IF At(reply, i) = ""
  THEN [err |-> FALSE, frameno |-> frameno, tracept |-> tracept]
  ELSE IF At(reply, i) = "F"
  THEN LET r == HexRunToTag(reply, i + 1, 0) IN
       tfind_reply_tagged(reply, r.next, r.val, tracept)
  ELSE IF At(reply, i) = "T"
  THEN LET r == HexRunToTag(reply, i + 1, 0) IN
       tfind_reply_tagged(reply, r.next, frameno, r.val)
  ELSE [err |-> TRUE, frameno |-> frameno, tracept |-> tracept]

RECURSIVE tfind_reply(_, _, _, _)
\* the parsing loop of finish_tfind_command, reading reply from position i
tfind_reply(reply, i, frameno, tracept) ==
  IF At(reply, i) = ""
  THEN [err |-> FALSE, frameno |-> frameno, tracept |-> tracept]
  ELSE IF At(reply, i) = "F"
  THEN LET r == strtol16(reply, i + 1) IN
       IF r.val = -1
       THEN [err |-> TRUE, frameno |-> frameno, tracept |-> tracept]
       ELSE tfind_reply(reply, r.next, r.val, tracept)
  ELSE IF At(reply, i) = "T"
  THEN LET r == strtol16(reply, i + 1) IN
       IF r.val = -1
       THEN [err |-> TRUE, frameno |-> frameno, tracept |-> tracept]
       ELSE tfind_reply(reply, r.next, frameno, r.val)
  ELSE IF At(reply, i) = "O" /\ At(reply, i + 1) = "K" /\ At(reply, i + 2) = ""
  THEN tfind_reply(reply, i + 2, frameno, tracept)
  ELSE [err |-> TRUE, frameno |-> frameno, tracept |-> tracept]

OK == <<"O", "K">>

\* what the stub may send while a command waits
StubPackets ==
  { <<>>, OK,
    <<"E", "1", "0">>, <<"E", "2", "1">>,
    <<"O", "4", "8">>,
    <<"R", "0", ":", "0", "0", ";">>,
    <<"F", "0">>, <<"T", "1">>,
    <<"F", "3", "F", "T", "7">>, <<"T", "7", "F", "3", "F">>,
    <<"F", "0", "O", "K">>,
    <<"F", "-", "1">>, <<"T", "-", "1">>, <<"X">> }

(***************************************************************************)
(* The registry.                                                           *)
(***************************************************************************)
\* set_raw_tracepoint linking the new tracepoint in at the head of the chain
set_raw_tracepoint_at_head(chain, sal) ==
  [chain |-> <<[number |-> 0, address |-> sal.pc,
                line_number |-> sal.line, enabled |-> TRUE,
                step_count |-> 0, pass_count |-> 0,
                actions |-> <<>>]>> \o chain,
   t |-> 1]

\* memset (t, 0, sizeof (*t)) and the assignments that follow it; the new
\* tracepoint goes to the end of the chain and has no number yet.  The
\* result is the chain and t, the place of the new tracepoint in it.
set_raw_tracepoint(chain, sal) ==
  [chain |-> Append(chain, [number |-> 0, address |-> sal.pc,
                            line_number |-> sal.line, enabled |-> TRUE,
                            step_count |-> 0, pass_count |-> 0,
                            actions |-> <<>>]),
   t |-> Len(chain) + 1]

RECURSIVE trace_sals_by_position(_, _, _)
\* trace_command numbering a tracepoint by its place in the chain
trace_sals_by_position(chain, m, sals) ==
  IF sals = <<>> THEN [chain |-> chain, m |-> m]
  ELSE LET r == set_raw_tracepoint(chain, Head(sals))
           m1 == set_tracepoint_count(m, Len(r.chain))
           c2 == [r.chain EXCEPT ![r.t].number = m1.count]
       IN trace_sals_by_position(c2, m1, Tail(sals))

RECURSIVE trace_sals(_, _, _)
\* the loop of trace_command over the decoded locations: [chain, m]
trace_sals(chain, m, sals) ==
  IF sals = <<>> THEN [chain |-> chain, m |-> m]
  ELSE LET r == set_raw_tracepoint(chain, Head(sals))
           m1 == set_tracepoint_count(m, m.count + 1)
           c2 == [r.chain EXCEPT ![r.t].number = m1.count]
       IN trace_sals(c2, m1, Tail(sals))

\* the numbers of the tracepoints in the chain
Numbers(chain) == {chain[k].number : k \in 1..Len(chain)}

Remove(chain, i) == SubSeq(chain, 1, i - 1) \o SubSeq(chain, i + 1, Len(chain))

\* enable and disable that also reset the pass count
tracepoint_operation_reset(chain, i, opcode) ==
  IF opcode = "enable" THEN [chain EXCEPT ![i].enabled = TRUE, ![i].pass_count = 0]
  ELSE IF opcode = "disable"
  THEN [chain EXCEPT ![i].enabled = FALSE, ![i].pass_count = 0]
  ELSE Remove(chain, i)

\* enable, disable or delete the tracepoint at position i of the chain
tracepoint_operation(chain, i, opcode) ==
  IF opcode = "enable" THEN [chain EXCEPT ![i].enabled = TRUE]
  ELSE IF opcode = "disable" THEN [chain EXCEPT ![i].enabled = FALSE]
  ELSE Remove(chain, i)

\* arguments naming a tracepoint: a decimal number or a convenience variable
NumArg(n) == [k |-> "num", n |-> n, s |-> ""]
VarArg(name) == [k |-> "var", n |-> 0, s |-> name]
EmptyArg == [k |-> "empty", n |-> 0, s |-> ""]
AllArg == [k |-> "all", n |-> 0, s |-> ""]

\* position in the chain of the tracepoint numbered tpnum, 0 when none
Lookup(chain, tpnum) ==
  IF \E i \in 1..Len(chain) : chain[i].number = tpnum
  THEN CHOOSE i \in 1..Len(chain) :
         /\ chain[i].number = tpnum
         /\ \A j \in 1..(i - 1) : chain[j].number # tpnum
  ELSE 0

\* [err, idx]: err when the convenience variable is not an integer
get_tracepoint_by_number(chain, m, arg) ==
  IF arg.k = "empty" THEN [err |-> FALSE, idx |-> Lookup(chain, m.count)]
  ELSE IF arg.k = "var"
  THEN LET val == IF arg.s \in IvarNames THEN m.iv[arg.s] ELSE VoidV IN
       IF val.t # "int" THEN [err |-> TRUE, idx |-> 0]
       ELSE [err |-> FALSE, idx |-> Lookup(chain, val.i)]
  ELSE [err |-> FALSE, idx |-> Lookup(chain, arg.n)]

RECURSIVE map_args(_, _, _, _)
\* the loop of map_args_over_tracepoints over a non-empty argument list;
\* error () leaves the operations already done in place
map_args(chain, m, args, opcode) ==
  IF args = <<>> THEN chain
  ELSE LET r == get_tracepoint_by_number(chain, m, Head(args)) IN
       IF r.err THEN chain
       ELSE map_args(IF r.idx = 0 THEN chain
                     ELSE tracepoint_operation(chain, r.idx, opcode),
                     m, Tail(args), opcode)

\* enable or disable with no argument: every tracepoint of the chain
map_all(chain, opcode) ==
  [i \in 1..Len(chain) |-> tracepoint_operation(chain, i, opcode)[i]]

\* trace_pass_command, after the count is read: target is "all" or an argument
trace_pass(chain, m, count, target) ==
  IF target.k = "all"
  THEN [i \in 1..Len(chain) |-> [chain[i] EXCEPT !.pass_count = count]]
  ELSE LET r == get_tracepoint_by_number(chain, m, target) IN
       IF r.err \/ r.idx = 0 THEN chain
       ELSE [chain EXCEPT ![r.idx].pass_count = count]

SeqsUpTo(S, n) == UNION {[1..k -> S] : k \in 1..n}

TpArgs ==
  {NumArg(n) : n \in 1..MaxTPWide} \cup {VarArg("tpnum"), VarArg("trace_func")}

PassCounts == {0, 3}

(***************************************************************************)
(* Collection lists: the registers and memory ranges one tracepoint is to  *)
(* collect.  A memrange is [type, start, end]: type 0 is absolute memory,  *)
(* any other type is the number of the base register start is an offset    *)
(* from.  Addresses are 32-bit two's complement values.                    *)
(***************************************************************************)
\* tracepoint_list.listsize = 128
listsize == 128
\* sizeof (struct memrange): an int and two 32-bit addresses
sizeof_memrange == 12

Memrange(type, start, end) == [type |-> type, start |-> start, end |-> end]

\* (bfd_vma) x < (bfd_vma) y, for signed x and y of the same width
UnsignedLess(x, y) == IF (x < 0) = (y < 0) THEN x < y ELSE y < 0

\* memrange_cmp comparing the starts of absolute ranges as signed numbers
memrange_cmp_signed(a, b) ==
  IF a.type < b.type THEN -1
  ELSE IF a.type > b.type THEN 1
  ELSE IF a.start < b.start THEN -1
  ELSE IF a.start > b.start THEN 1
  ELSE 0

memrange_cmp(a, b) ==
  IF a.type < b.type THEN -1
  ELSE IF a.type > b.type THEN 1
  ELSE IF a.type = 0
  THEN IF UnsignedLess(a.start, b.start) THEN -1
       ELSE IF UnsignedLess(b.start, a.start) THEN 1
       ELSE 0
  ELSE IF a.start < b.start THEN -1
  ELSE IF a.start > b.start THEN 1
  ELSE 0

\* no element compares greater than a later one
Sorted(list) ==
  \A i, j \in 1..Len(list) : i < j => memrange_cmp(list[i], list[j]) <= 0

\* the list in order, elements that compare equal staying in the order
\* they had: each element goes to the place after the elements that come
\* before it
StableSort(list) ==
  LET n == Len(list)
      place == SubSeq([i \in 1..n |->
                         Cardinality({j \in 1..n :
                           \/ memrange_cmp(list[j], list[i]) < 0
                           \/ memrange_cmp(list[j], list[i]) = 0 /\ j < i})
                         + 1], 1, n)
      from == SubSeq([k \in 1..n |-> CHOOSE i \in 1..n : place[i] = k], 1, n)
  IN SubSeq([k \in 1..n |-> list[from[k]]], 1, n)

\* qsort (list, n, sizeof (struct memrange), memrange_cmp): the orders it
\* may leave the list in.  The order of elements that compare equal is
\* unspecified, so every sorted permutation is possible; when the only
\* elements that compare equal are copies of one another there is only one.
qsort(list) ==
  LET s == StableSort(list) IN
  IF \A k \in 1..(Len(s) - 1) :
       memrange_cmp(s[k], s[k + 1]) # 0 \/ s[k] = s[k + 1]
  THEN {s}
  ELSE {t \in {[k \in 1..Len(list) |-> list[p[k]]] :
                 p \in {q \in [1..Len(list) -> 1..Len(list)] :
                          \A i, j \in 1..Len(list) : i # j => q[i] # q[j]}} :
          Sorted(t)}

\* one turn of the loop merging only when the gap is below
\* MAX_REGISTER_VIRTUAL_SIZE
merge_step_below(st, b) ==
  IF /\ st.list[st.a].type = st.list[b].type
     /\ st.list[b].start - st.list[st.a].end < MAX_REGISTER_VIRTUAL_SIZE
  THEN [st EXCEPT !.list[st.a].end = st.list[b].end]
  ELSE [list |-> [st.list EXCEPT ![st.a + 1] = st.list[b]], a |-> st.a + 1]

\* one turn of the for loop of memrange_sortmerge, a and b counted from 1:
\* list[b] is merged into list[a], or a moves on and list[b] is copied there
merge_step(st, b) ==
  IF /\ st.list[st.a].type = st.list[b].type
     /\ st.list[b].start - st.list[st.a].end <= MAX_REGISTER_VIRTUAL_SIZE
  THEN [st EXCEPT !.list[st.a].end = st.list[b].end]
  ELSE [list |-> [st.list EXCEPT ![st.a + 1] = st.list[b]], a |-> st.a + 1]

RECURSIVE merge_turns(_, _, _)
\* the turns of the loop for b = from .. to, in order: those of the first
\* half, then those of the second
merge_turns(st, from, to) ==
  IF from > to \/ from > Len(st.list) THEN st
  ELSE IF from = to THEN merge_step(st, from)
  ELSE LET mid == (from + to) \div 2 IN
       merge_turns(merge_turns(st, from, mid), mid + 1, to)

\* the for loop of memrange_sortmerge over a sorted list, and
\* next_memrange = a + 1 after it
merge_loop(list) ==
  LET st == merge_turns([list |-> list, a |-> 1], 2, Len(list))
  IN SubSeq(st.list, 1, st.a)

\* the lists memrange_sortmerge may leave
memrange_sortmerge(list) ==
  IF list = <<>> THEN {<<>>}
  ELSE {merge_loop(s) : s \in qsort(list)}

\* regs_mask with no register, and an empty list
NoRegs == [i \in 0..7 |-> 0]
\* listsize is the field of that name and bytes the size of the block
\* list points to, as _initialize_tracepoint leaves them
clear_collection_list ==
  [regs_mask |-> NoRegs, list |-> <<>>, err |-> FALSE, ub |-> FALSE,
   listsize |-> listsize, bytes |-> listsize * sizeof_memrange]

\* clear_collection_list (c): next_memrange and the mask are reset, the
\* block and listsize are what earlier calls of add_memrange made of them
clear_collection_list_of(c) ==
  [clear_collection_list EXCEPT !.listsize = c.listsize, !.bytes = c.bytes]

RECURSIVE Pow2(_)
Pow2(n) == IF n = 0 THEN 1 ELSE 2 * Pow2(n - 1)

\* byte | (1 << bit)
OrBit(byte, bit) ==
  IF (byte \div Pow2(bit)) % 2 = 1 THEN byte ELSE byte + Pow2(bit)

\* add_register; err is set by error (), ub by a write the language does
\* not define: register 64 passes the test and is written past regs_mask.
add_register(c, regno) ==
  IF regno > 64 THEN [c EXCEPT !.err = TRUE]
  ELSE IF regno = 64 THEN [c EXCEPT !.ub = TRUE]
  ELSE [c EXCEPT !.regs_mask[regno \div 8] = OrBit(@, regno % 8)]

\* add_memrange.  The record is written at index next_memrange of the
\* block; then, when next_memrange has reached listsize, listsize is
\* doubled and the block reallocated to listsize bytes.  ub: the record
\* was written outside the block, or the block was cut down to fewer
\* bytes than the records in use take.
add_memrange(c, type, base, len) ==
  LET n == Len(c.list)
      full == n + 1 >= c.listsize
      size == IF full THEN 2 * c.listsize ELSE c.listsize
      bytes == IF full THEN size ELSE c.bytes
      c1 == [c EXCEPT !.list = Append(@, Memrange(type, base, base + len)),
                      !.listsize = size, !.bytes = bytes,
                      !.ub = \/ @
                             \/ (n + 1) * sizeof_memrange > c.bytes
                             \/ (n + 1) * sizeof_memrange > bytes]
  IN IF type # 0 THEN add_register(c1, type) ELSE c1

\* what a collect line asks for: a register, or len bytes at base (an
\* address when type is 0, else an offset from register type)
Reg(n) == [k |-> "reg", type |-> n, base |-> 0, len |-> 0]
Mem(type, base, len) == [k |-> "mem", type |-> type, base |-> base, len |-> len]

RECURSIVE add_items(_, _)
\* add_register or add_memrange for each of items, in order, up to the
\* first error (): the first half of the items, then the second
add_items(c, items) ==
  IF items = <<>> \/ c.err THEN c
  ELSE IF Len(items) = 1
  THEN IF items[1].k = "reg" THEN add_register(c, items[1].type)
       ELSE add_memrange(c, items[1].type, items[1].base, items[1].len)
  ELSE LET h == Len(items) \div 2 IN
       add_items(add_items(c, SubSeq(items, 1, h)),
                 SubSeq(items, h + 1, Len(items)))

RECURSIVE HexDigitsOf(_)
\* the digits of n >= 0 in base 16, upper case, no leading zero
HexDigitsOf(n) ==
  IF n < 16 THEN <<HexUpper[n + 1]>>
  ELSE Append(HexDigitsOf(n \div 16), HexUpper[(n % 16) + 1])

\* sprintf "%X" of a 32-bit value: a negative one prints as n + 2^32
FormatX(n) ==
  IF n >= 0 THEN HexDigitsOf(n)
  ELSE LET low == (n + 2147483647) + 1
           rest == HexDigitsOf(low % 268435456)
       IN <<HexUpper[(low \div 268435456) + 9]>>
          \o [k \in 1..(7 - Len(rest)) |-> "0"] \o rest

\* sprintf "%02X" of a byte
Format02X(byte) == <<HexUpper[(byte \div 16) + 1], HexUpper[(byte % 16) + 1]>>

RECURSIVE MaskBytes(_, _)
\* the bytes of the mask from byte i down to byte 0
MaskBytes(mask, i) ==
  IF i < 0 THEN <<>> ELSE Format02X(mask[i]) \o MaskBytes(mask, i - 1)

RECURSIVE MemrangeStrings(_)
\* sprintf "M%X,%X,%X" for each memrange in turn: the first half of the
\* list, then the second
MemrangeStrings(list) ==
  IF list = <<>> THEN <<>>
  ELSE IF Len(list) = 1
  THEN <<"M">> \o FormatX(list[1].type) \o <<",">>
       \o FormatX(list[1].start) \o <<",">>
       \o FormatX(list[1].end - list[1].start)
  ELSE LET h == Len(list) \div 2 IN
       MemrangeStrings(SubSeq(list, 1, h))
       \o MemrangeStrings(SubSeq(list, h + 1, Len(list)))

\* a stringify_collection_list that prints all the bytes of the mask
stringify_whole_mask(c) ==
  (IF \E i \in 0..7 : c.regs_mask[i] # 0
   THEN <<"R">> \o MaskBytes(c.regs_mask, 7) ELSE <<>>)
  \o MemrangeStrings(c.list)

\* stringify_collection_list; the empty string stands for NULL
stringify_collection_list(c) ==
  LET nonzero == {i \in 1..7 : c.regs_mask[i] # 0}
      i == IF nonzero = {} THEN 0
           ELSE CHOOSE k \in nonzero : \A j \in nonzero : j <= k
  IN (IF c.regs_mask[i] # 0 THEN <<"R">> \o MaskBytes(c.regs_mask, i)
      ELSE <<>>)
     \o MemrangeStrings(c.list)

(***************************************************************************)
(* Packets to the stub.                                                    *)
(***************************************************************************)
Pkt(op, a, b) ==
  [op |-> op, a |-> a, b |-> b, en |-> FALSE, step |-> 0, pass |-> 0,
   tdp |-> <<>>, stp |-> <<>>, tail |-> <<>>]

\* the body sprintf builds for one tracepoint, before its action tails
QTDP(t) ==
  [op |-> "QTDP", a |-> t.number, b |-> t.address, en |-> t.enabled,
   step |-> t.step_count, pass |-> t.pass_count, tdp |-> <<>>, stp |-> <<>>,
   tail |-> <<>>]

\* the body with the action tails strcat appends to it: tail is what follows
\* the header, the stepping actions after an "S"
QTDPWith(t, tdp, stp) ==
  [QTDP(t) EXCEPT !.tdp = tdp, !.stp = stp,
                  !.tail = tdp \o (IF stp = <<>> THEN <<>> ELSE <<"S">> \o stp)]

\* no run of the collection functions
NoJob ==
  [phase |-> "none", items |-> <<>>, other |-> <<>>, tdp |-> <<>>,
   stp |-> <<>>]

NoCmd == [name |-> "none", stage |-> "", idx |-> 0, frameno |-> 0]
Cmd(name, stage, idx, frameno) ==
  [name |-> name, stage |-> stage, idx |-> idx, frameno |-> frameno]

NoPre ==
  [count |-> 0, tfn |-> 0, tpn |-> 0, fun |-> "", sal |-> NoSal,
   iv |-> [n \in IvarNames |-> VoidV], steps |-> <<>>]

(***************************************************************************)
(* _initialize_tracepoint                                                  *)
(***************************************************************************)
InitSession ==
  /\ tracepoint_chain = <<>>
  /\ tracepoint_count = 0
  /\ traceframe_number = -1
  /\ tracepoint_number = -1
  /\ traceframe_fun = ""
  /\ traceframe_sal = NoSal
  /\ ivar = [n \in IvarNames |->
               IF n \in {"tpnum", "trace_frame"} THEN IntV(0) ELSE VoidV]
  /\ steps = <<>>
  /\ remote = FALSE
  /\ pc = "idle"
  /\ cmd = NoCmd
  /\ wire = <<>>
  /\ console = <<>>
  /\ heard = <<>>
  /\ outcome = "none"
  /\ pre = NoPre
  /\ assigned = {}
  /\ tracepoint_list = clear_collection_list
  /\ stepping_list = clear_collection_list
  /\ immediate_quit = 0

Init == InitSession /\ job = NoJob

Registry == <<tracepoint_chain, assigned>>
History == <<cmd, wire, console, heard, outcome, pre>>

\* the command loop reads the next command
Prompt ==
  /\ pc = "done"
  /\ pc' = "idle"
  /\ cmd' = NoCmd
  /\ wire' = <<>>
  /\ console' = <<>>
  /\ heard' = <<>>
  /\ outcome' = "none"
  /\ pre' = NoPre
  /\ steps' = <<>>
  /\ UNCHANGED <<tracepoint_chain, tracepoint_count, traceframe_number,
                 tracepoint_number, traceframe_fun, traceframe_sal, ivar,
                 remote, assigned, Lists, immediate_quit>>

\* the user connects to, or leaves, a remote target
TargetCommand ==
  /\ pc = "idle"
  /\ remote' = ~remote
  /\ CurUnchanged
  /\ UNCHANGED <<pc, Registry, History>>

(***************************************************************************)
(* Registry commands.  They send nothing and return to the prompt at once. *)
(***************************************************************************)
Error == pc' = "done" /\ outcome' = "error"
Return == pc' = "done" /\ outcome' = "ok"

Stay == UNCHANGED <<pc, remote, History>>

\* trace <arg>: decode_line_1 gave sals (none: it has warned, nothing is set)
TraceCmd(cap) ==
  /\ pc = "idle"
  /\ \E sals \in {<<>>} \cup SeqsUpTo(TraceSals, MaxSals) :
       /\ tracepoint_count + Len(sals) <= cap
       /\ LET r == trace_sals(tracepoint_chain, Cur, sals) IN
          /\ tracepoint_chain' = r.chain
          /\ SetCur(r.m)
          /\ assigned' =
               assigned \cup (Numbers(r.chain) \ Numbers(tracepoint_chain))
  /\ Stay

TraceCommand == TraceCmd(MaxTP)
\* trace, in sessions that have a single tracepoint
TraceOne == TraceCmd(MaxTP) /\ Len(tracepoint_chain') <= 1
TraceCommandWide == TraceCmd(MaxTPWide)

EnableTraceCommand ==
  /\ pc = "idle"
  /\ \E args \in {<<>>} \cup SeqsUpTo(TpArgs, MaxArgs) :
       tracepoint_chain' =
         IF args = <<>> THEN map_all(tracepoint_chain, "enable")
         ELSE map_args(tracepoint_chain, Cur, args, "enable")
  /\ CurUnchanged
  /\ UNCHANGED assigned
  /\ Stay

DisableTraceCommand ==
  /\ pc = "idle"
  /\ \E args \in {<<>>} \cup SeqsUpTo(TpArgs, MaxArgs) :
       tracepoint_chain' =
         IF args = <<>> THEN map_all(tracepoint_chain, "disable")
         ELSE map_args(tracepoint_chain, Cur, args, "disable")
  /\ CurUnchanged
  /\ UNCHANGED assigned
  /\ Stay

\* ALL_TRACEPOINTS (t), for (t = tracepoint_chain; t; t = t->next), over a
\* body that unlinks and frees t: the ways the walk may end, [chain, fault]
ALL_TRACEPOINTS_freed(chain) ==
  {[chain |-> SubSeq(chain, k + 1, Len(chain)), fault |-> fault] :
     k \in 1..Len(chain), fault \in BOOLEAN}

\* delete tracepoints <numbers>
DeleteTraceCommand ==
  /\ pc = "idle"
  /\ \E args \in SeqsUpTo(TpArgs, MaxArgs) :
       tracepoint_chain' = map_args(tracepoint_chain, Cur, args, "delete")
  /\ CurUnchanged
  /\ UNCHANGED assigned
  /\ Stay

\* delete tracepoints, confirmed: ALL_TRACEPOINTS (t) frees t and then reads
\* t->next out of the freed record.  What that read yields is not defined:
\* the old successor (the walk goes on), a null pointer (the walk ends with
\* the tracepoints after the first k still on the chain) or a pointer the
\* next step faults on.
DeleteAllTraceCommand ==
  /\ pc = "idle"
  /\ tracepoint_chain # <<>>
  /\ \E walk \in ALL_TRACEPOINTS_freed(tracepoint_chain) :
       /\ tracepoint_chain' = walk.chain
       /\ pc' = IF walk.fault THEN "crashed" ELSE "idle"
  /\ CurUnchanged
  /\ UNCHANGED <<assigned, remote, History>>

\* passcount <count> [all | <tracepoint>]
TracePassCommand ==
  /\ pc = "idle"
  /\ \E count \in PassCounts, target \in {AllArg, EmptyArg} \cup TpArgs :
       tracepoint_chain' = trace_pass(tracepoint_chain, Cur, count, target)
  /\ CurUnchanged
  /\ UNCHANGED assigned
  /\ Stay

(***************************************************************************)
(* The actions command and its sub-prompt.  A step of the sub-prompt is    *)
(* one line read from the user.                                            *)
(***************************************************************************)
\* char buf[2048] of trace_start_command, tdp_buff[2048] and
\* step_buff[2048] of encode_actions
sizeof_buf == 2048
sizeof_tdp_buff == 2048

\* a collect line of literal memory ranges 64K long and 16M apart, as many
\* as tdp_buff has room for: the first 15 take 16 characters each in the
\* packet, the others 17
FarLine == "collect $(0x1000000,0x10000), $(0x2000000,0x10000), ..."
FarCount == (sizeof_tdp_buff - 1 - 15 * 16) \div 17 + 15
FarRanges == [k \in 1..FarCount |-> Mem(0, k * 16777216, 65536)]

\* the lines a user may type: validate_actionline's cases
ActionLines ==
  {"", "collect x", "collect $reg", "collect $(0,8", "while-stepping 3",
   "while-stepping", "while-stepping 0", "end", "bogus"}

\* the lines typed in sessions that do more than edit actions
BriefLines == {"", "collect $(0,8", "end"}

\* the lines typed in sessions that download what is to be collected
DownloadLines == {"collect $reg", FarLine, "end"}

\* the lines typed in sessions that enter long action lists: what is
\* collected when the tracepoint is hit and while stepping
ScriptLines ==
  {"", "collect x", "collect $reg", "collect $(0,8", "while-stepping 3",
   "end"}

\* the lines typed in sessions that try the validator: a reference to a
\* convenience variable, literal memranges without comma, without
\* close-parenthesis and of size zero, while-stepping without a count and
\* with a count of zero
EditLines ==
  {"collect x", "collect $foo", "collect $(0 8)", "collect $(0,8",
   "collect $(0,0)", "collect $(0,-4)", "while-stepping", "while-stepping 0",
   "end", "bogus"}

\* free_actions leaving the head of the list in the tracepoint
free_actions_but_first(t) ==
  [t EXCEPT !.actions = IF @ = <<>> THEN <<>> ELSE <<Head(@)>>]

free_actions(t) == [t EXCEPT !.actions = <<>>]

\* [type, t]: the line's type ("ERROR" when validation ends in error ())
\* and the tracepoint as validation leaves it
\* collect lines with a literal memrange that has no comma, no closing
\* parenthesis, size 0 or a negative size
BadMemranges ==
  {"collect $(0 8)", "collect $(0,8", "collect $(0,0)", "collect $(0,-4)"}

\* a validator that lets every literal memrange pass
validate_actionline_lenient(line, t) ==
  IF line = "while-stepping 3"
  THEN [type |-> "STEPPING", t |-> [t EXCEPT !.step_count = 3]]
  ELSE IF line = "while-stepping 0"
  THEN [type |-> "BADLINE", t |-> [t EXCEPT !.step_count = 0]]
  ELSE IF line = "while-stepping"
  THEN [type |-> "STEPPING", t |-> [t EXCEPT !.step_count = -1]]
  ELSE [type |-> IF line \in {"collect x", "collect $reg", "collect $foo",
                              FarLine} \cup BadMemranges
                 THEN "GENERIC"
                 ELSE IF line = "end" THEN "END" ELSE "BADLINE",
        t |-> t]

validate_actionline(line, t) ==
  IF line = "" THEN [type |-> "BADLINE", t |-> t]
  ELSE IF line \in {"collect x", "collect $reg", "collect $foo", FarLine}
  THEN [type |-> "GENERIC", t |-> t]
  ELSE IF line \in BadMemranges
  THEN [type |-> "ERROR", t |-> t]
  ELSE IF line = "while-stepping 3"
  THEN [type |-> "STEPPING", t |-> [t EXCEPT !.step_count = 3]]
  ELSE IF line = "while-stepping 0"
  THEN [type |-> "BADLINE", t |-> [t EXCEPT !.step_count = 0]]
  ELSE IF line = "while-stepping"
  THEN [type |-> "STEPPING", t |-> [t EXCEPT !.step_count = -1]]
  ELSE IF line = "end" THEN [type |-> "END", t |-> t]
  ELSE [type |-> "BADLINE", t |-> t]

\* actions [tpnum]
TraceActionsCommand ==
  /\ pc = "idle"
  /\ pre' = Cur
  /\ \E arg \in {EmptyArg} \cup TpArgs :
       LET r == get_tracepoint_by_number(tracepoint_chain, Cur, arg) IN
       IF r.err
       THEN cmd' = Cmd("actions", "", 0, 0) /\ Error
            /\ UNCHANGED <<tracepoint_chain, immediate_quit>>
       ELSE IF r.idx = 0
       THEN cmd' = Cmd("actions", "", 0, 0) /\ Return
            /\ UNCHANGED <<tracepoint_chain, immediate_quit>>
       ELSE /\ cmd' = Cmd("actions", "p1", r.idx, 0)
            /\ pc' = "actions"
            /\ tracepoint_chain' =
                 [tracepoint_chain EXCEPT ![r.idx] = free_actions(@)]
            /\ immediate_quit < MaxQuit
            /\ immediate_quit' = immediate_quit + 1
            /\ UNCHANGED outcome
  /\ CurKept /\ UNCHANGED Lists
  /\ UNCHANGED <<assigned, remote, wire, console, heard>>

\* error () or quit () out of the sub-prompt: the cleanups made so far run
\* and the command loop takes over; neither is said to set immediate_quit
Unwound == pc' = "done" /\ outcome' = "error" /\ UNCHANGED immediate_quit

\* one turn of read_actions' loop, the line being one of lines and the
\* list holding fewer than max lines
ReadActionsUpTo(lines, max) ==
  /\ pc = "actions"
  /\ \E line \in lines :
       LET t == tracepoint_chain[cmd.idx]
           v == validate_actionline(line, t)
           stored == [v.t EXCEPT !.actions = Append(@, line)]
       IN
       IF v.type = "ERROR"
       THEN /\ tracepoint_chain' =
                 [tracepoint_chain EXCEPT ![cmd.idx] = free_actions(v.t)]
            /\ Unwound
            /\ cmd' = [cmd EXCEPT !.stage = "memrange"]
       ELSE IF v.type = "BADLINE"
       THEN /\ tracepoint_chain' = [tracepoint_chain EXCEPT ![cmd.idx] = v.t]
            /\ UNCHANGED <<pc, outcome, cmd, immediate_quit>>
       ELSE /\ Len(t.actions) < max
            /\ tracepoint_chain' = [tracepoint_chain EXCEPT ![cmd.idx] = stored]
            /\ IF v.type = "END" /\ cmd.stage = "p1"
               THEN Return /\ immediate_quit' = 0 /\ UNCHANGED cmd
               ELSE /\ cmd' = [cmd EXCEPT !.stage =
                                 IF v.type = "STEPPING" THEN "p2"
                                 ELSE IF v.type = "END" THEN "p1"
                                 ELSE @]
                    /\ UNCHANGED <<pc, outcome, immediate_quit>>
  /\ CurKept /\ UNCHANGED Lists
  /\ UNCHANGED <<assigned, remote, wire, console, heard, pre>>

ReadActions(lines) == ReadActionsUpTo(lines, MaxLines)

ReadActionsBrief == ReadActions(BriefLines)
ReadActionsDownload == ReadActions(DownloadLines)
ReadActionsScript == ReadActionsUpTo(ScriptLines, MaxScript)
ReadActionsEdit == ReadActions(EditLines)

\* the user interrupts the sub-prompt: the cleanup frees what was entered
ReadActionsQuit ==
  /\ pc = "actions"
  /\ tracepoint_chain' =
       [tracepoint_chain EXCEPT ![cmd.idx] = free_actions(@)]
  /\ Unwound
  /\ CurKept /\ UNCHANGED Lists
  /\ UNCHANGED <<assigned, remote, cmd, wire, console, heard, pre>>

(***************************************************************************)
(* Commands that talk to the stub.                                         *)
(***************************************************************************)
\* error (): the command is abandoned where it stands

Begin(c) ==
  pc = "idle" /\ cmd' = c /\ pre' = Cur /\ UNCHANGED <<console, heard>>

\* putpkt (p); remote_get_noisy_reply (target_buf), w being the line so far
SendAfter(w, p) == wire' = Append(w, p) /\ pc' = "wait" /\ UNCHANGED outcome
Send(p) == SendAfter(wire, p)

\* the reply remote_get_noisy_reply returned, as strcmp (target_buf, "OK")
\* sees it
Heard(buf) == Append(wire, Pkt(IF buf = OK THEN "OK" ELSE "other", 0, 0))

\* what one collect line adds: x is a static variable, 4 bytes at 0x100
LineItems(line) ==
  IF line = "collect x" THEN <<Mem(0, 256, 4)>>
  ELSE IF line = "collect $reg" THEN [i \in 1..NUM_REGS |-> Reg(i - 1)]
  ELSE IF line = FarLine THEN FarRanges
  ELSE <<>>   \* "collect $foo": no case of the switch on the opcode

RECURSIVE ItemsOf(_)
\* what the collect lines among lines add, in order
ItemsOf(lines) ==
  IF lines = <<>> THEN <<>>
  ELSE LineItems(Head(lines)) \o ItemsOf(Tail(lines))

\* every collect line goes to the tracepoint list
encode_lines_one_list(lines, collect, tl, sl) ==
  [tl |-> add_items(tl, ItemsOf(lines)), sl |-> sl]

RECURSIVE encode_lines_end_halts(_, _, _, _)
\* a loop that stops at the first end, whichever list it is filling
encode_lines_end_halts(lines, collect, tl, sl) ==
  IF lines = <<>> \/ tl.err \/ sl.err THEN [tl |-> tl, sl |-> sl]
  ELSE IF Head(lines) \in {"collect x", "collect $reg"}
  THEN IF collect = "tracepoint_list"
       THEN encode_lines_end_halts(Tail(lines), collect,
                                   add_items(tl, LineItems(Head(lines))), sl)
       ELSE encode_lines_end_halts(Tail(lines), collect, tl,
                                   add_items(sl, LineItems(Head(lines))))
  ELSE IF Head(lines) = "while-stepping 3"
  THEN encode_lines_end_halts(Tail(lines), "stepping_list", tl, sl)
  ELSE [tl |-> tl, sl |-> sl]

RECURSIVE encode_lines(_, _, _, _)
\* the loop of encode_actions over the action lines: [tl, sl], the two
\* lists; collect says which of them the lines go to
encode_lines(lines, collect, tl, sl) ==
  IF lines = <<>> \/ tl.err \/ sl.err THEN [tl |-> tl, sl |-> sl]
  ELSE IF Head(lines) \in {"collect x", "collect $reg", "collect $foo",
                           FarLine}
  THEN IF collect = "tracepoint_list"
       THEN encode_lines(Tail(lines), collect,
                         add_items(tl, LineItems(Head(lines))), sl)
       ELSE encode_lines(Tail(lines), collect, tl,
                         add_items(sl, LineItems(Head(lines))))
  ELSE IF Head(lines) \in {"while-stepping 3", "while-stepping",
                           "while-stepping 0"}
  THEN encode_lines(Tail(lines), "stepping_list", tl, sl)
  ELSE IF Head(lines) = "end"
  THEN IF collect = "stepping_list"
       THEN encode_lines(Tail(lines), "tracepoint_list", tl, sl)
       ELSE [tl |-> tl, sl |-> sl]
  ELSE encode_lines(Tail(lines), collect, tl, sl)

\* the lists sorted and merged, and the strings made of them; ub when a
\* list outgrew its allocation or a string its buffer
Encoded(tl, sl) ==
  LET tdp == stringify_collection_list(tl)
      stp == stringify_collection_list(sl)
  IN [tl |-> tl, sl |-> sl, tdp |-> tdp, stp |-> stp, err |-> FALSE,
      ub |-> \/ tl.ub \/ sl.ub
             \/ Len(tdp) >= sizeof_tdp_buff \/ Len(stp) >= sizeof_tdp_buff]

\* encode_actions (t, ...): the results it may have
encode_actions(t) ==
  LET r == encode_lines(t.actions, "tracepoint_list",
                        clear_collection_list, clear_collection_list)
  IN IF r.tl.err \/ r.sl.err
     THEN {[tl |-> r.tl, sl |-> r.sl, tdp |-> <<>>, stp |-> <<>>,
            err |-> TRUE, ub |-> r.tl.ub \/ r.sl.ub]}
     ELSE {Encoded([r.tl EXCEPT !.list = l1], [r.sl EXCEPT !.list = l2]) :
             l1 \in memrange_sortmerge(r.tl.list),
             l2 \in memrange_sortmerge(r.sl.list)}

\* strlen of what sprintf "QTDP:%x:%x:%c:%x:%x" puts into buf
HeaderLen(t) ==
  5 + Len(FormatX(t.number)) + 1 + Len(FormatX(t.address)) + 3
  + Len(FormatX(t.step_count)) + 1 + Len(FormatX(t.pass_count))

\* one of the two tests strlen (buf) + strlen (...) >= sizeof (buf) holds
TooComplex(t, e) ==
  LET first == HeaderLen(t) + Len(e.tdp) IN
  \/ e.tdp # <<>> /\ first >= sizeof_buf
  \/ e.stp # <<>> /\ first + 1 + Len(e.stp) >= sizeof_buf

\* the body of tstart's loop for tracepoint t, the i-th it comes to
Download(t, i) ==
  IF t.actions = <<>>
  THEN /\ SendAfter(Heard(OK), QTDP(t))
       /\ cmd' = Cmd("tstart", "qtdp", i, 0)
       /\ UNCHANGED <<tracepoint_list, stepping_list>>
  ELSE \E e \in encode_actions(t) :
         /\ tracepoint_list' = e.tl
         /\ stepping_list' = e.sl
         /\ \/ /\ e.ub
               /\ pc' = "crashed"
               /\ wire' = Heard(OK)
               /\ cmd' = Cmd("tstart", "encode", i, 0)
               /\ UNCHANGED outcome
            \/ IF e.err \/ TooComplex(t, e)
               THEN /\ Error
                    /\ wire' = Heard(OK)
                    /\ cmd' = Cmd("tstart",
                                  IF e.err THEN "encode" ELSE "complex", i, 0)
               ELSE /\ SendAfter(Heard(OK), QTDPWith(t, e.tdp, e.stp))
                    /\ cmd' = Cmd("tstart", "qtdp", i, 0)

\* tstart walking the chain from its last tracepoint to its first
TstartFromLast(i) ==
  IF i > Len(tracepoint_chain)
  THEN /\ SendAfter(Heard(OK), Pkt("QTStart", 0, 0))
       /\ cmd' = Cmd("tstart", "start", 0, 0)
       /\ UNCHANGED <<tracepoint_list, stepping_list>>
  ELSE Download(tracepoint_chain[Len(tracepoint_chain) + 1 - i], i)

\* tstart's loop from the tracepoint at position i on, or what follows
\* the loop
TstartFrom(i) ==
  IF i > Len(tracepoint_chain)
  THEN /\ SendAfter(Heard(OK), Pkt("QTStart", 0, 0))
       /\ cmd' = Cmd("tstart", "start", 0, 0)
       /\ UNCHANGED <<tracepoint_list, stepping_list>>
  ELSE Download(tracepoint_chain[i], i)

TraceStartCommand ==
  /\ IF remote
     THEN /\ Begin(Cmd("tstart", "init", 0, 0))
          /\ Send(Pkt("QTinit", 0, 0))
     ELSE /\ Begin(Cmd("tstart", "", 0, 0))
          /\ Return
          /\ UNCHANGED wire
  /\ CurUnchanged
  /\ UNCHANGED <<Registry, remote>>

TraceStopCommand ==
  /\ Begin(Cmd("tstop", "", 0, 0))
  /\ IF remote THEN Send(Pkt("QTStop", 0, 0)) ELSE Error /\ UNCHANGED wire
  /\ CurUnchanged
  /\ UNCHANGED <<Registry, remote>>

TraceStatusCommand ==
  /\ Begin(Cmd("tstatus", "", 0, 0))
  /\ IF remote THEN Send(Pkt("qTStatus", 0, 0)) ELSE Error /\ UNCHANGED wire
  /\ CurUnchanged
  /\ UNCHANGED <<Registry, remote>>

\* trace_find_command once frameno is known
TraceFind(frameno) ==
  /\ Send(Pkt("QTFrame", frameno, 0))
  /\ cmd' = Cmd("tfind", IF frameno = -1 THEN "end" ELSE "select", 0, frameno)

TfindFrame == UNCHANGED <<Registry, remote>> /\ CurUnchanged
BeginTfind == pc = "idle" /\ pre' = Cur /\ UNCHANGED <<console, heard>>
NotRemote == cmd' = Cmd("tfind", "", 0, 0) /\ Error /\ UNCHANGED wire

\* tfind <n>, n one of frames
TraceFindFrames(frames) ==
  /\ BeginTfind
  /\ IF remote THEN \E n \in frames : TraceFind(n) ELSE NotRemote
  /\ TfindFrame

TraceFindCommand == TraceFindFrames((-1)..MaxFrame)

\* frame numbers past the end of a short trace as well
FarFrames == ((-1)..MaxFrame) \cup {5}

\* tfind with no argument: the next frame
TraceFindNextCommand ==
  /\ BeginTfind
  /\ IF remote
     THEN TraceFind(IF traceframe_number = -1 THEN 0
                    ELSE traceframe_number + 1)
     ELSE NotRemote
  /\ TfindFrame

\* tfind - that refuses only when no frame is selected
TraceFindPrevFromFirst ==
  /\ BeginTfind
  /\ IF remote /\ traceframe_number # -1
     THEN TraceFind(traceframe_number - 1)
     ELSE NotRemote
  /\ TfindFrame

\* tfind -
TraceFindPrevCommand ==
  /\ BeginTfind
  /\ IF remote /\ traceframe_number \notin {-1, 0}
     THEN TraceFind(traceframe_number - 1)
     ELSE NotRemote
  /\ TfindFrame

TraceFindEndCommand ==
  /\ BeginTfind
  /\ IF remote THEN TraceFind(-1) ELSE NotRemote
  /\ TfindFrame

TraceFindNoneCommand ==
  /\ BeginTfind
  /\ IF remote THEN TraceFind(-1) ELSE NotRemote
  /\ TfindFrame

TraceFindStartCommand ==
  /\ BeginTfind
  /\ IF remote THEN TraceFind(0) ELSE NotRemote
  /\ TfindFrame

\* a request finish_tfind_command will answer
TraceFindBy(p) == Send(p) /\ cmd' = Cmd("tfind", "select", 0, 0)

\* tfind pc [addr]; without addr the pc is read_pc ()
TraceFindPcCommand ==
  /\ BeginTfind
  /\ IF remote
     THEN \E a \in {64, 128} : TraceFindBy(Pkt("QTFrame:pc", a, 0))
     ELSE NotRemote
  /\ TfindFrame

\* tfind tracepoint [num]
TraceFindTracepointCommand ==
  /\ BeginTfind
  /\ \E args \in {EmptyArg} \cup {NumArg(n) : n \in 1..MaxTP} :
       IF remote /\ ~(args.k = "empty" /\ tracepoint_number = -1)
       THEN TraceFindBy(Pkt("QTFrame:tdp",
                            IF args.k = "empty" THEN tracepoint_number
                            ELSE args.n, 0))
       ELSE NotRemote
  /\ TfindFrame

\* tfind line [spec]: the line's pc range comes from the symbol table; with
\* an argument the frame is sought inside it, without one outside it.  The
\* command may also give up before it sends anything: by error () when
\* there is no good line, by return when there is neither line nor pc.
TraceFindLineCommand ==
  /\ BeginTfind
  /\ IF remote
     THEN \E how \in {"range", "outside", "error", "return"} :
            IF how = "error"
            THEN cmd' = Cmd("tfind", "", 0, 0) /\ Error /\ UNCHANGED wire
            ELSE IF how = "return"
            THEN cmd' = Cmd("tfind", "", 0, 0) /\ Return /\ UNCHANGED wire
            ELSE TraceFindBy(Pkt(IF how = "range" THEN "QTFrame:range"
                                 ELSE "QTFrame:outside", 64, 72 - 1))
     ELSE NotRemote
  /\ TfindFrame

\* the arguments of tfind range and tfind outside: none, <a> or <a>,<b>
RangeArgs == {<<>>, <<64>>, <<64, 128>>}

TraceFindRange(op) ==
  /\ BeginTfind
  /\ IF remote
     THEN \E args \in RangeArgs :
            IF args = <<>>
            THEN cmd' = Cmd("tfind", "", 0, 0) /\ Return /\ UNCHANGED wire
            ELSE TraceFindBy(Pkt(op, args[1],
                                 IF Len(args) = 2 THEN args[2]
                                 ELSE args[1] + 1))
     ELSE NotRemote
  /\ TfindFrame

TraceFindRangeCommand == TraceFindRange("QTFrame:range")
TraceFindOutsideCommand == TraceFindRange("QTFrame:outside")

(***************************************************************************)
(* remote_get_noisy_reply: one step per packet the stub delivers.  A line  *)
(* is the stub as a session meets it: the packets it may deliver, how much *)
(* console output it may produce during one command, and whether the       *)
(* packets delivered are logged in heard.                                  *)
(***************************************************************************)
MorePackets ==
  { <<"E">>, <<"E", "1", "2">>, <<"E", "9">>, <<"O">>, <<"O", "6", "9">>,
    <<"O", "K", "x">>, <<"F">>, <<"F", "-", "2">> }

Line == [packets |-> StubPackets, noise |-> MaxNoise, rec |-> FALSE]
LoggedLine ==
  [packets |-> StubPackets \cup MorePackets, noise |-> MaxChatter,
   rec |-> TRUE]

\* getpkt (buf, 0)
Hear(ch, buf) == heard' = IF ch.rec THEN Append(heard, buf) ELSE heard

\* the message trace_error raises, "" when it returns
trace_error(buf) ==
  IF At(buf, 1) # "E" THEN ""
  ELSE IF At(buf, 2) = "1"
  THEN IF At(buf, 3) = "0" THEN "tracepoint.c: error in outgoing packet."
       ELSE "tracepoint.c: error in outgoing packet at field #%d."
  ELSE IF At(buf, 2) = "2" THEN "trace API error 0x%s."
  ELSE "Target returns error code '%s'."

RECURSIVE trace_receive_regs(_, _)
\* TRUE when the register packet parses; p is where it is read from.  Each
\* register is taken to be one byte wide (two hex digits).
trace_receive_regs(buf, p) ==
  IF At(buf, p) = "" THEN TRUE
  ELSE LET r == strtol16(buf, p) IN
       IF r.next = p \/ At(buf, r.next) # ":" THEN FALSE
       ELSE IF At(buf, r.next + 3) # ";" THEN FALSE
       ELSE trace_receive_regs(buf, r.next + 4)

\* a reply that takes error packets for the answer
TerminalWithErrors(buf) ==
  /\ buf # <<>>
  /\ buf[1] # "R"
  /\ ~(buf[1] = "O" /\ At(buf, 2) # "K")

\* the packet is the reply the caller waits for
Terminal(buf) ==
  /\ buf # <<>>
  /\ buf[1] \notin {"E", "R"}
  /\ ~(buf[1] = "O" /\ At(buf, 2) # "K")

Waiting == pc = "wait"
Keep == UNCHANGED <<Registry, remote, cmd, pre>>

\* buf[0] == 0: "Target does not support this command."
ReplyEmptyOn(ch) ==
  /\ Waiting
  /\ \E buf \in ch.packets : buf = <<>> /\ Hear(ch, buf)
  /\ Error
  /\ CurUnchanged
  /\ UNCHANGED <<wire, console>>
  /\ Keep

\* buf[0] == 'E': trace_error
ReplyErrorOn(ch) ==
  /\ Waiting
  /\ \E buf \in ch.packets :
       /\ buf # <<>> /\ buf[1] = "E"
       /\ Hear(ch, buf)
       /\ IF trace_error(buf) = "" THEN UNCHANGED <<pc, outcome>> ELSE Error
  /\ CurUnchanged
  /\ UNCHANGED <<wire, console>>
  /\ Keep

\* buf[0] == 'R': the caches are dropped, then trace_receive_regs reads the
\* packet from its first character on
ReplyRegsOn(ch) ==
  /\ Waiting
  /\ \E buf \in ch.packets :
       /\ buf # <<>> /\ buf[1] = "R"
       /\ Hear(ch, buf)
       /\ SetCur(select_frame(registers_changed(flush_cached_frames(Cur))))
       /\ IF trace_receive_regs(buf, 1)
          THEN UNCHANGED <<pc, outcome>>
          ELSE Error
  /\ UNCHANGED <<wire, console>>
  /\ Keep

\* console output lost on its way to the console
ReplyConsoleDropping(ch) ==
  /\ Waiting
  /\ Len(console) < ch.noise
  /\ \E buf \in ch.packets :
       /\ buf # <<>> /\ buf[1] = "O" /\ At(buf, 2) # "K"
       /\ Hear(ch, buf)
       /\ UNCHANGED console
  /\ CurUnchanged
  /\ UNCHANGED <<pc, outcome, wire>>
  /\ Keep

\* buf[0] == 'O' and not "OK": console output, and the wait goes on
ReplyConsoleOn(ch) ==
  /\ Waiting
  /\ Len(console) < ch.noise
  /\ \E buf \in ch.packets :
       /\ buf # <<>> /\ buf[1] = "O" /\ At(buf, 2) # "K"
       /\ Hear(ch, buf)
       /\ console' = Append(console, SubSeq(buf, 2, Len(buf)))
  /\ CurUnchanged
  /\ UNCHANGED <<pc, outcome, wire>>
  /\ Keep

ReplyEmpty == ReplyEmptyOn(Line)
ReplyError == ReplyErrorOn(Line)
ReplyRegs == ReplyRegsOn(Line)
ReplyConsole == ReplyConsoleOn(Line)

(***************************************************************************)
(* The callers of remote_get_noisy_reply, from the terminal reply on.      *)
(***************************************************************************)
TstartReply(stage) ==
  /\ Waiting
  /\ cmd.name = "tstart" /\ cmd.stage = stage
  /\ UNCHANGED <<Registry, remote, console, pre>>

\* the reply to QTinit
TstartInitReplyOn(ch) ==
  /\ TstartReply("init")
  /\ \E buf \in ch.packets :
       /\ Terminal(buf)
       /\ Hear(ch, buf)
       /\ IF buf = OK THEN TstartFrom(1)
          ELSE /\ Error /\ wire' = Heard(buf) /\ UNCHANGED cmd
               /\ UNCHANGED <<tracepoint_list, stepping_list>>
  /\ CurKept /\ UNCHANGED <<job, immediate_quit>>

\* the reply to a QTDP
TstartQTDPReplyOn(ch) ==
  /\ TstartReply("qtdp")
  /\ \E buf \in ch.packets :
       /\ Terminal(buf)
       /\ Hear(ch, buf)
       /\ IF buf = OK THEN TstartFrom(cmd.idx + 1)
          ELSE /\ Error /\ wire' = Heard(buf) /\ UNCHANGED cmd
               /\ UNCHANGED <<tracepoint_list, stepping_list>>
  /\ CurKept /\ UNCHANGED <<job, immediate_quit>>

\* tstart resetting the cursor but not the frame context
TstartStartReplyKeepingContext(ch) ==
  /\ TstartReply("start")
  /\ \E buf \in ch.packets :
       /\ Terminal(buf)
       /\ Hear(ch, buf)
       /\ IF buf = OK
          THEN /\ SetCur(set_tracepoint_num(set_traceframe_num(Cur, -1), -1))
               /\ Return
          ELSE Error /\ CurUnchanged
       /\ wire' = Heard(buf)
  /\ UNCHANGED cmd

\* the reply to QTStart
TstartStartReplyOn(ch) ==
  /\ TstartReply("start")
  /\ \E buf \in ch.packets :
       /\ Terminal(buf)
       /\ Hear(ch, buf)
       /\ IF buf = OK
          THEN /\ SetCur(set_traceframe_context(
                           set_tracepoint_num(
                             set_traceframe_num(Cur, -1), -1), -1))
               /\ Return
          ELSE Error /\ CurUnchanged
       /\ wire' = Heard(buf)
  /\ UNCHANGED cmd

TstartInitReply == TstartInitReplyOn(Line)
TstartQTDPReply == TstartQTDPReplyOn(Line)
TstartStartReply == TstartStartReplyOn(Line)

\* the reply to QTStop or qTStatus
StopStatusReplyOn(ch) ==
  /\ Waiting
  /\ cmd.name \in {"tstop", "tstatus"}
  /\ \E buf \in ch.packets :
       /\ Terminal(buf)
       /\ Hear(ch, buf)
       /\ IF buf = OK THEN Return ELSE Error
       /\ wire' = Heard(buf)
  /\ CurUnchanged
  /\ UNCHANGED console
  /\ Keep

StopStatusReply == StopStatusReplyOn(Line)

\* tfind end forgetting the tracepoint number
tfind_end_keeping_tracepoint(m) ==
  set_traceframe_context(
    set_traceframe_num(
      select_frame(registers_changed(flush_cached_frames(m))), -1), -1)

\* trace_find_command, frameno == -1: end trace debugging
tfind_end(m) ==
  set_traceframe_context(
    set_tracepoint_num(
      set_traceframe_num(
        select_frame(registers_changed(flush_cached_frames(m))), -1), -1), -1)

\* finish_tfind_command writing the numbers before it drops the caches
finish_tfind_numbers_first(m, frameno, tracept, frame_pc) ==
  set_traceframe_context(
    select_frame(registers_changed(flush_cached_frames(
      set_tracepoint_num(set_traceframe_num(m, frameno), tracept)))),
    frame_pc)

\* finish_tfind_command doing nothing for a reply that names no frame and
\* no tracepoint
finish_tfind_unless_untagged(m, frameno, tracept, frame_pc) ==
  IF frameno = -1 /\ tracept = -1 THEN m
  ELSE set_traceframe_context(
         set_tracepoint_num(
           set_traceframe_num(
             select_frame(registers_changed(flush_cached_frames(m))),
             frameno), tracept), frame_pc)

\* finish_tfind_command after the reply is parsed; frame_pc is the pc of
\* the frame the target now shows
finish_tfind(m, frameno, tracept, frame_pc) ==
  set_traceframe_context(
    set_tracepoint_num(
      set_traceframe_num(
        select_frame(registers_changed(flush_cached_frames(m))),
        frameno), tracept), frame_pc)

\* the request for frame -1 answered like any other request
TfindEndReplyAsSelect(ch) ==
  /\ Waiting
  /\ cmd.name = "tfind" /\ cmd.stage = "end"
  /\ \E buf \in ch.packets :
       /\ Terminal(buf)
       /\ Hear(ch, buf)
       /\ LET r == tfind_reply(buf, 1, -1, -1) IN
          IF r.err THEN Error /\ CurUnchanged
          ELSE /\ \E frame_pc \in FramePCs :
                    SetCur(finish_tfind(Cur, r.frameno, r.tracept, frame_pc))
               /\ Return
  /\ UNCHANGED <<wire, console>>
  /\ Keep

\* the reply to QTFrame:-1
TfindEndReplyOn(ch) ==
  /\ Waiting
  /\ cmd.name = "tfind" /\ cmd.stage = "end"
  /\ \E buf \in ch.packets :
       /\ Terminal(buf)
       /\ Hear(ch, buf)
       /\ IF buf = <<"F", "-", "1">>
          THEN SetCur(tfind_end(Cur)) /\ Return
          ELSE Error /\ CurUnchanged
  /\ UNCHANGED <<wire, console>>
  /\ Keep

\* the reply to any other tfind request
TfindReplyOn(ch) ==
  /\ Waiting
  /\ cmd.name = "tfind" /\ cmd.stage = "select"
  /\ \E buf \in ch.packets :
       /\ Terminal(buf)
       /\ Hear(ch, buf)
       /\ LET r == tfind_reply(buf, 1, -1, -1) IN
          IF r.err THEN Error /\ CurUnchanged
          ELSE /\ \E frame_pc \in FramePCs :
                    SetCur(finish_tfind(Cur, r.frameno, r.tracept, frame_pc))
               /\ Return
  /\ UNCHANGED <<wire, console>>
  /\ Keep

TfindEndReply == TfindEndReplyOn(Line)
TfindReply == TfindReplyOn(Line)

\* the stub answers
Replies ==
  \/ ReplyEmpty
  \/ ReplyError
  \/ ReplyRegs
  \/ ReplyConsole
  \/ TstartInitReply
  \/ TstartQTDPReply
  \/ TstartStartReply

\* actions, enable, disable, delete and passcount
RegistryCommands ==
  \/ TraceActionsCommand
  \/ ReadActionsBrief
  \/ ReadActionsQuit
  \/ EnableTraceCommand
  \/ DisableTraceCommand
  \/ DeleteTraceCommand
  \/ DeleteAllTraceCommand
  \/ TracePassCommand

\* tstop, tstatus and tfind, with their replies
CursorCommands ==
  \/ TraceStopCommand
  \/ TraceStatusCommand
  \/ TraceFindCommand
  \/ TraceFindNextCommand
  \/ TraceFindPrevCommand
  \/ TraceFindEndCommand
  \/ TraceFindNoneCommand
  \/ TraceFindStartCommand
  \/ TraceFindPcCommand
  \/ TraceFindTracepointCommand
  \/ TraceFindLineCommand
  \/ TraceFindRangeCommand
  \/ TraceFindOutsideCommand
  \/ StopStatusReply
  \/ TfindEndReply
  \/ TfindReply

Session == Prompt \/ TargetCommand \/ TraceStartCommand \/ Replies

\* every command
Next == Session \/ TraceCommand \/ RegistryCommands \/ CursorCommands

Spec == Init /\ [][Next]_vars

\* sessions that edit the registry and download it, with longer chains
NextRegistry == Session \/ TraceCommandWide \/ RegistryCommands

SpecRegistry == Init /\ [][NextRegistry]_vars

\* sessions that make tracepoints, give them pass counts and actions, switch
\* them on and off and download them
NextFlags ==
  \/ Prompt
  \/ TargetCommand
  \/ TraceStartCommand
  \/ TstartInitReply
  \/ TstartQTDPReply
  \/ TstartStartReply
  \/ TraceCommandWide
  \/ EnableTraceCommand
  \/ DisableTraceCommand
  \/ TracePassCommand
  \/ TraceActionsCommand
  \/ ReadActionsBrief

SpecFlags == Init /\ [][NextFlags]_vars

\* sessions that start, stop and browse a trace
NextCursor == Session \/ TraceCommand \/ CursorCommands

SpecCursor == Init /\ [][NextCursor]_vars

\* sessions that make, edit and download tracepoints and browse the trace
\* by frame number
NextNumbers ==
  \/ Session
  \/ TraceCommand
  \/ RegistryCommands
  \/ TraceFindCommand
  \/ TraceFindEndCommand
  \/ TfindEndReply
  \/ TfindReply

SpecNumbers == Init /\ [][NextNumbers]_vars

\* sessions that make tracepoints, say what they collect and download them
NextDownload ==
  \/ Session
  \/ TraceCommandWide
  \/ TraceActionsCommand
  \/ ReadActionsDownload
  \/ ReadActionsQuit

SpecDownload == Init /\ [][NextDownload]_vars

\* what sessions with a single tracepoint do besides entering its actions:
\* they make it and download it
Single ==
  \/ Prompt
  \/ TargetCommand
  \/ TraceOne
  \/ TraceActionsCommand
  \/ ReadActionsQuit
  \/ TraceStartCommand
  \/ TstartInitReply
  \/ TstartQTDPReply
  \/ TstartStartReply

\* sessions that enter long action lists
NextScript == Single \/ ReadActionsScript

SpecScript == Init /\ [][NextScript]_vars

\* sessions that only enter action lists, none of them cut short
NextNest == Prompt \/ TraceOne \/ TraceActionsCommand \/ ReadActionsScript

SpecNest == Init /\ [][NextNest]_vars

\* sessions that try the validator
NextEdit == Single \/ ReadActionsEdit

SpecEdit == Init /\ [][NextEdit]_vars

\* sessions on a logged line with an empty registry: every command that
\* waits for the stub, and every packet the stub may answer with
NextReply ==
  \/ Prompt
  \/ TargetCommand
  \/ TraceStartCommand
  \/ TraceStopCommand
  \/ TraceStatusCommand
  \/ TraceFindFrames(FarFrames)
  \/ TraceFindNextCommand
  \/ TraceFindPrevCommand
  \/ TraceFindEndCommand
  \/ TraceFindNoneCommand
  \/ TraceFindStartCommand
  \/ TraceFindPcCommand
  \/ TraceFindTracepointCommand
  \/ TraceFindLineCommand
  \/ TraceFindRangeCommand
  \/ TraceFindOutsideCommand
  \/ ReplyEmptyOn(LoggedLine)
  \/ ReplyErrorOn(LoggedLine)
  \/ ReplyRegsOn(LoggedLine)
  \/ ReplyConsoleOn(LoggedLine)
  \/ TstartInitReplyOn(LoggedLine)
  \/ TstartStartReplyOn(LoggedLine)
  \/ StopStatusReplyOn(LoggedLine)
  \/ TfindEndReplyOn(LoggedLine)
  \/ TfindReplyOn(LoggedLine)

SpecReply == Init /\ [][NextReply]_vars

\* a packet that ends the wait is delivered: an empty one, an error packet
\* or the reply the command waits for
DecisiveReply ==
  \/ ReplyEmptyOn(LoggedLine)
  \/ ReplyErrorOn(LoggedLine)
  \/ TstartInitReplyOn(LoggedLine)
  \/ TstartStartReplyOn(LoggedLine)
  \/ StopStatusReplyOn(LoggedLine)
  \/ TfindEndReplyOn(LoggedLine)
  \/ TfindReplyOn(LoggedLine)

\* the same sessions with a stub that, as long as a command waits, does in
\* the end deliver a packet that ends the wait
SpecWait == SpecReply /\ WF_vars(DecisiveReply)

\* the numbers a stub puts into a reply to tfind, as it writes them
OrderDigits == {<<"7">>, <<"F">>, <<"3", "F">>, <<"1", "0">>, <<"a">>}

\* a frame number and a tracepoint number in one reply, in either order
OrderPackets ==
  {<<"F">> \o a \o <<"T">> \o b : a \in OrderDigits, b \in OrderDigits}
  \cup
  {<<"T">> \o b \o <<"F">> \o a : a \in OrderDigits, b \in OrderDigits}

OrderLine == [packets |-> OrderPackets, noise |-> 0, rec |-> TRUE]

\* sessions that select frames by number on a stub that names the frame and
\* the tracepoint in either order
NextOrder ==
  \/ Prompt
  \/ TargetCommand
  \/ TraceFindFrames(0..MaxFrame)
  \/ TfindReplyOn(OrderLine)

SpecOrder == Init /\ [][NextOrder]_vars

(***************************************************************************)
(* The collection functions on their own: memory ranges are added to       *)
(* tracepoint_list in one order and to stepping_list in another, then both *)
(* lists are sorted and merged and made into strings, as encode_actions    *)
(* does for the two halves of a tracepoint's actions.                      *)
(***************************************************************************)
\* ranges that touch, overlap, lie one byte too far apart to merge, sit at
\* the top of the address space, or are offsets from register 1
Items ==
  { Mem(0, 0, 2), Mem(0, 0, MAX_REGISTER_VIRTUAL_SIZE + 8),
    Mem(0, MAX_REGISTER_VIRTUAL_SIZE + 2, 2),
    Mem(0, MAX_REGISTER_VIRTUAL_SIZE + 3, 2), Mem(0, -8, 2),
    Mem(1, -8, 8), Mem(1, 0, 2) }

\* the ways to put n things in order
Orders(n) ==
  {p \in [1..n -> 1..n] : \A i, j \in 1..n : i # j => p[i] # p[j]}

\* a job: up to MaxRanges ranges in one order, and the same in another
NewJob(s, p) ==
  [phase |-> "new", items |-> s, other |-> [k \in 1..Len(s) |-> s[p[k]]],
   tdp |-> <<>>, stp |-> <<>>]

InitCollect ==
  /\ InitSession
  /\ \E n \in 1..MaxRanges : \E p \in Orders(n) : \E s \in [1..n -> Items] :
       job = NewJob(s, p)

SessionUnchanged ==
  /\ CurKept
  /\ UNCHANGED <<Registry, History, remote, pc, immediate_quit>>

\* clear_collection_list, then add_memrange for each range
CollectRanges ==
  /\ job.phase = "new"
  /\ tracepoint_list' = add_items(clear_collection_list, job.items)
  /\ stepping_list' = add_items(clear_collection_list, job.other)
  /\ job' = [job EXCEPT !.phase = "added"]
  /\ SessionUnchanged

\* memrange_sortmerge on both lists
SortmergeLists ==
  /\ job.phase = "added"
  /\ \E l1 \in memrange_sortmerge(tracepoint_list.list),
        l2 \in memrange_sortmerge(stepping_list.list) :
       /\ tracepoint_list' = [tracepoint_list EXCEPT !.list = l1]
       /\ stepping_list' = [stepping_list EXCEPT !.list = l2]
  /\ job' = [job EXCEPT !.phase = "merged"]
  /\ SessionUnchanged

\* stringify_collection_list on both lists
StringifyLists ==
  /\ job.phase = "merged"
  /\ job' = [job EXCEPT !.phase = "strung",
                        !.tdp = stringify_collection_list(tracepoint_list),
                        !.stp = stringify_collection_list(stepping_list)]
  /\ UNCHANGED <<tracepoint_list, stepping_list>>
  /\ SessionUnchanged

NextCollect == CollectRanges \/ SortmergeLists \/ StringifyLists

SpecCollect == InitCollect /\ [][NextCollect]_vars

(***************************************************************************)
(* One collection list under any sequence of its four functions.  job      *)
(* tells the last call and what it was given.                              *)
(***************************************************************************)
\* sizeof (collection->regs_mask)
sizeof_regs_mask == 8

\* register numbers below, next to, at and past the capacity of regs_mask
RegNumbers ==
  {1, 8 * sizeof_regs_mask - 1, 8 * sizeof_regs_mask,
   8 * sizeof_regs_mask + 1}

\* the call returned to its caller: error () has not unwound the command
NoError(c) == ~c.err

Called(name, items) == job' = [NoJob EXCEPT !.phase = name, !.items = items]

ListUnchanged == SessionUnchanged /\ UNCHANGED stepping_list

\* clear_collection_list (&tracepoint_list), as encode_actions begins
ClearList ==
  /\ tracepoint_list' = clear_collection_list_of(tracepoint_list)
  /\ Called("clear_collection_list", <<>>)
  /\ ListUnchanged

\* add_register (&tracepoint_list, regno)
AddRegister ==
  /\ NoError(tracepoint_list)
  /\ \E regno \in {0} \cup RegNumbers :
       /\ tracepoint_list' = add_register(tracepoint_list, regno)
       /\ Called("add_register", <<Reg(regno)>>)
  /\ ListUnchanged

\* add_memrange (&tracepoint_list, type, base, len)
AddMemrange ==
  /\ NoError(tracepoint_list)
  /\ Len(tracepoint_list.list) < MaxRanges
  /\ \E type \in {0} \cup RegNumbers,
        base \in {0, MAX_REGISTER_VIRTUAL_SIZE + 3} :
       /\ tracepoint_list' = add_memrange(tracepoint_list, type, base, 2)
       /\ Called("add_memrange", <<Mem(type, base, 2)>>)
  /\ ListUnchanged

\* memrange_sortmerge (&tracepoint_list)
SortmergeList ==
  /\ NoError(tracepoint_list)
  /\ \E l \in memrange_sortmerge(tracepoint_list.list) :
       tracepoint_list' = [tracepoint_list EXCEPT !.list = l]
  /\ Called("memrange_sortmerge", <<>>)
  /\ ListUnchanged

\* stringify_collection_list (&tracepoint_list, ...): job.tdp is the string
StringifyList ==
  /\ NoError(tracepoint_list)
  /\ job' = [NoJob EXCEPT !.phase = "stringify_collection_list",
                          !.tdp = stringify_collection_list(tracepoint_list)]
  /\ UNCHANGED tracepoint_list
  /\ ListUnchanged

NextList ==
  ClearList \/ AddRegister \/ AddMemrange \/ SortmergeList \/ StringifyList

SpecList == Init /\ [][NextList]_vars

(***************************************************************************)
(* One collection list filled by runs of add_memrange, as one collect line *)
(* after another fills it, and cleared between compilations.               *)
(***************************************************************************)
\* how many memranges one run adds
Runs == {1, 21, 63}

\* add_memrange (&tracepoint_list, 0, base, 2) for n ranges that lie apart
AddMemranges ==
  /\ NoError(tracepoint_list)
  /\ \E n \in Runs :
       LET first == Len(tracepoint_list.list)
           items == [k \in 1..n |-> Mem(0, 16 * (first + k), 2)]
       IN /\ first + n <= listsize + MaxBeyond
          /\ tracepoint_list' = add_items(tracepoint_list, items)
          /\ Called("add_memrange", <<items[n]>>)
  /\ ListUnchanged

NextAlloc == ClearList \/ AddMemranges

SpecAlloc == Init /\ [][NextAlloc]_vars

(***************************************************************************)
(* Properties.                                                             *)
(***************************************************************************)
QTinit == Pkt("QTinit", 0, 0)
QTStart == Pkt("QTStart", 0, 0)
Ack == Pkt("OK", 0, 0)
Nak == Pkt("other", 0, 0)

\* what tstart exchanges with a stub that answers OK to everything
TstartLine ==
  <<QTinit, Ack>>
  \o [k \in 1..(2 * Len(tracepoint_chain)) |->
        IF k % 2 = 1 THEN QTDP(tracepoint_chain[(k + 1) \div 2]) ELSE Ack]
  \o <<QTStart, Ack>>

\* C1: during tstart the packets sent are QTinit, one QTDP per tracepoint
\* in chain order (so with strictly increasing numbers), then QTStart; a
\* packet is sent only after the packet before it was answered OK, and
\* after an answer that is not OK nothing more is sent, QTStart least of all.
C1_TstartPacketOrder ==
  cmd.name = "tstart" =>
    /\ Len(wire) <= Len(TstartLine)
    /\ \A k \in 1..Len(wire) :
         \/ wire[k] = TstartLine[k]
         \/ k = Len(wire) /\ k % 2 = 0 /\ wire[k] = Nak /\ pc = "done"
    /\ pc = "wait" => Len(wire) % 2 = 1
    /\ \A j, k \in 1..Len(wire) :
         j < k /\ wire[j].op = "QTDP" /\ wire[k].op = "QTDP"
           => wire[j].a < wire[k].a

\* a tstart that downloaded two tracepoints and started the experiment
C1_Witness ==
  /\ pc = "done" /\ cmd.name = "tstart" /\ outcome = "ok"
  /\ Len(tracepoint_chain) = 2
  /\ wire = TstartLine

\* the cursor and the variables that show it
CursorOf(m) ==
  <<m.tfn, m.tpn, m.iv["trace_frame"], m.iv["tracepoint"],
    m.iv["trace_line"], m.iv["trace_func"], m.iv["trace_file"]>>

\* tstart went through to the OK that answers QTStart
TstartCompleted ==
  pc = "done" /\ cmd.name = "tstart" /\ cmd.stage = "start" /\ outcome = "ok"

\* C2: after a tstart that completes, traceframe_number and
\* tracepoint_number are -1, $trace_frame, $tracepoint and $trace_line are
\* -1 and $trace_func and $trace_file are null pointers; a tstart that ends
\* any other way leaves the cursor and these variables as they were.
C2_TstartResetsCursor ==
  pc = "done" /\ cmd.name = "tstart" =>
    IF TstartCompleted
    THEN CursorOf(Cur) =
           <<-1, -1, IntV(-1), IntV(-1), IntV(-1), NullPtrV, NullPtrV>>
    ELSE CursorOf(Cur) = CursorOf(pre)

\* a tstart completes while a trace frame with line information is selected
C2_Witness ==
  /\ TstartCompleted
  /\ pre.tfn = 0 /\ pre.iv["trace_line"] = IntV(10)

\* C3: whatever trace, delete, enable, disable, passcount and actions
\* commands were given, a tracepoint earlier in the chain has a smaller
\* number than one later in it.
C3_ChainNumbersIncrease ==
  \A j, k \in 1..Len(tracepoint_chain) :
    j < k => tracepoint_chain[j].number < tracepoint_chain[k].number

\* two tracepoints, the first disabled, the second with a pass count and
\* actions
C3_Witness ==
  /\ Len(tracepoint_chain) = 2
  /\ ~tracepoint_chain[1].enabled
  /\ tracepoint_chain[2].pass_count = 3
  /\ tracepoint_chain[2].actions # <<>>
  /\ pc = "idle"

\* C4: tracepoint_count never decreases and is at least the number of
\* every tracepoint in the chain; a tracepoint that joins the chain gets a
\* number no tracepoint had before, deleted ones included, and has no
\* actions.
C4_NumbersNeverReused ==
  /\ [](\A k \in 1..Len(tracepoint_chain) :
          /\ tracepoint_chain[k].number <= tracepoint_count
          /\ tracepoint_chain[k].number \in assigned)
  /\ [][/\ tracepoint_count' >= tracepoint_count
        /\ \A k \in 1..Len(tracepoint_chain') :
             tracepoint_chain'[k].number \notin Numbers(tracepoint_chain)
               => /\ tracepoint_chain'[k].number \notin assigned
                  /\ tracepoint_chain'[k].actions = <<>>]_vars

\* tracepoint 1 was given actions and deleted; the next trace made number 2
C4_Witness ==
  /\ Len(tracepoint_chain) = 1
  /\ tracepoint_chain[1].number = 2
  /\ tracepoint_chain[1].actions = <<>>
  /\ assigned = {1, 2}
  /\ tracepoint_count = 2

FullTransition == <<"flush", "regs", "select", "frame_num", "tp_num", "context">>
WritesOnly == <<"frame_num", "tp_num", "context">>

\* the command has returned normally
Returned == pc = "done" /\ outcome = "ok"

\* a tfind that got its answer and moved the cursor
TfindCompleted ==
  Returned /\ cmd.name = "tfind" /\ cmd.stage \in {"select", "end"}

\* C5 as stated: successful tstart, tstop, a tfind selection and tfind
\* end/none each invalidate the cached frames, flag the registers changed,
\* re-select the current frame, write the frame and tracepoint numbers and
\* then the context variables, in this order.
C5_AsStated ==
  TstartCompleted \/ TfindCompleted \/ (Returned /\ cmd.name = "tstop")
    => steps = FullTransition

\* C5: a tfind that selects a frame or ends trace browsing invalidates the
\* cached frames, flags the registers changed, re-selects the current
\* frame, writes the frame and tracepoint numbers and then the context
\* variables, in this order; a successful tstart does only the three
\* writes, in the same order; tstop does none of the six.
C5_TransitionOrder ==
  /\ TfindCompleted => steps = FullTransition
  /\ TstartCompleted => steps = WritesOnly
  /\ Returned /\ cmd.name = "tstop" => steps = <<>>

\* a tfind has selected frame 0x3f of tracepoint 7
C5_Witness ==
  /\ TfindCompleted /\ cmd.stage = "select"
  /\ traceframe_number = 63 /\ tracepoint_number = 7
  /\ steps = FullTransition

\* the writes of a transition the current command has done
Written == {steps[k] : k \in 1..Len(steps)} \cap {"frame_num", "tp_num", "context"}

\* C6: when a command returns or aborts, $trace_frame, $tracepoint,
\* $trace_line, $trace_func and $trace_file are either all as they were
\* before the command or all written by the command's transition (the two
\* numbers, and the line, function and file of one and the same pc).
C6_AllOrNothing ==
  pc = "done" =>
    \/ Written = {} /\ CursorOf(Cur) = CursorOf(pre)
    \/ /\ Written = {"frame_num", "tp_num", "context"}
       /\ outcome = "ok"
       /\ ivar["trace_frame"] = IntV(traceframe_number)
       /\ ivar["tracepoint"] = IntV(tracepoint_number)
       /\ \E a \in FramePCs :
            LET m == set_traceframe_context(pre, a) IN
            /\ ivar["trace_line"] = m.iv["trace_line"]
            /\ ivar["trace_func"] = m.iv["trace_func"]
            /\ ivar["trace_file"] = m.iv["trace_file"]

\* a tfind end aborted by a bogus reply while frame 0 was selected
C6_Witness ==
  /\ pc = "done" /\ outcome = "error"
  /\ cmd.name = "tfind" /\ cmd.stage = "end"
  /\ traceframe_number = 0 /\ ivar["trace_line"] = IntV(10)

ContextCleared ==
  /\ ivar["trace_func"] = NullPtrV
  /\ ivar["trace_file"] = NullPtrV
  /\ ivar["trace_line"] = IntV(-1)

\* C7: whenever a command has returned, traceframe_number is -1 exactly
\* when $trace_func and $trace_file are null and $trace_line is -1.
C7_AsStated == Returned => (traceframe_number = -1 <=> ContextCleared)

\* C8: in every reachable state $trace_frame is traceframe_number and
\* $tracepoint is tracepoint_number.
C8_AsStated ==
  /\ ivar["trace_frame"] = IntV(traceframe_number)
  /\ ivar["tracepoint"] = IntV(tracepoint_number)

\* the command has moved the cursor
Moved == Returned /\ Written # {}

\* C9 as stated: a cursor transition writes the new tracepoint_number into
\* $tpnum, so that after a tfind that selects a frame of tracepoint k,
\* $tpnum is k.
C9_AsStated == Moved => ivar["tpnum"] = IntV(tracepoint_number)

\* C9: a cursor transition writes the new tracepoint_number into
\* $tracepoint and the new traceframe_number into $trace_frame, and leaves
\* $tpnum as it was; after a tfind that selects a frame of tracepoint k,
\* $tracepoint is k.
C9_TransitionWritesTracepoint ==
  Moved =>
    /\ ivar["tracepoint"] = IntV(tracepoint_number)
    /\ ivar["trace_frame"] = IntV(traceframe_number)
    /\ ivar["tpnum"] = pre.iv["tpnum"]

\* a tfind answered F3FT7 while the last tracepoint made is number 1
C9_Witness ==
  /\ TfindCompleted
  /\ tracepoint_number = 7 /\ ivar["tracepoint"] = IntV(7)
  /\ ivar["tpnum"] = IntV(1)

\* C10: in every reachable state $tpnum is tracepoint_count, the number of
\* the last tracepoint made (0 before the first); tfind, tstart, delete,
\* enable, disable, passcount and actions leave it alone.
C10_TpnumIsCount == ivar["tpnum"] = IntV(tracepoint_count)

\* tracepoint 1 was made and deleted, and a tfind then selected a frame of
\* tracepoint 7
C10_Witness ==
  /\ tracepoint_chain = <<>> /\ tracepoint_count = 1
  /\ tracepoint_number = 7
  /\ ivar["tpnum"] = IntV(1)

\* the last packet the line delivered
LastHeard == heard[Len(heard)]

\* packets the reply wrapper turns into an error
ErrorPacket(buf) == buf = <<>> \/ buf[1] = "E"

\* C11: an empty packet or an E packet (E10, E1x, E2x or any other) that
\* arrives while tstart, tstop, tstatus or a tfind waits for its reply ends
\* the command with an error: no packet is sent and none is received after
\* it, and the caller never gets it as its reply (nothing is compared with
\* it or parsed from it, the cursor and its variables stay as they were).
C11_ErrorPacketAborts ==
  /\ [](\A k \in 1..Len(heard) :
          ErrorPacket(heard[k])
            => k = Len(heard) /\ pc = "done" /\ outcome = "error")
  /\ [][Len(heard') > Len(heard) /\ ErrorPacket(heard'[Len(heard')])
          => /\ cmd.name \in {"tstart", "tstop", "tstatus", "tfind"}
             /\ pc' = "done" /\ outcome' = "error"
             /\ UNCHANGED <<wire, steps, cmd>>
             /\ CurUnchanged]_vars

\* tstart was aborted by E12 in answer to QTStart, after console output
C11_Witness ==
  /\ pc = "done" /\ outcome = "error"
  /\ cmd.name = "tstart" /\ cmd.stage = "start"
  /\ wire = <<QTinit, Ack, QTStart>>
  /\ heard = <<OK, <<"O", "4", "8">>, <<"E", "1", "2">>>>

\* console output: O and not OK
ConsolePacket(buf) == buf # <<>> /\ buf[1] = "O" /\ At(buf, 2) # "K"

\* what the command makes of a terminal reply
Accepts(c, buf) ==
  IF c.name = "tfind"
  THEN IF c.stage = "end" THEN buf = <<"F", "-", "1">>
       ELSE ~tfind_reply(buf, 1, -1, -1).err
  ELSE buf = OK

\* C12: however many console packets (O, second character not K) come
\* before the terminal reply, the console gets the tail of each one in the
\* order of arrival, the command goes on waiting after each, and it ends
\* as the terminal reply alone decides: tstart, tstop and tstatus succeed
\* on OK, tfind on a reply it can parse.
C12_ConsoleForwarded ==
  LET out == SelectSeq(heard, ConsolePacket) IN
  /\ console = [k \in 1..Len(out) |-> SubSeq(out[k], 2, Len(out[k]))]
  /\ heard # <<>> /\ ConsolePacket(LastHeard) => pc = "wait"
  /\ pc = "done" /\ heard # <<>> /\ Terminal(LastHeard)
       => outcome = IF Accepts(cmd, LastHeard) THEN "ok" ELSE "error"

\* tstart succeeded with two console packets before the OK to QTinit
C12_Witness ==
  /\ TstartCompleted
  /\ heard = <<<<"O", "6", "9">>, <<"O", "4", "8">>, OK, OK>>
  /\ console = <<<<"6", "9">>, <<"4", "8">>>>

\* C13 as stated: an R packet that arrives while a command waits is
\* processed in full (frames flushed, registers marked changed, frame
\* re-selected, register values decoded and supplied) and the command
\* then goes on waiting for its terminal reply.
C13_AsStated ==
  heard # <<>> /\ LastHeard # <<>> /\ LastHeard[1] = "R" => pc = "wait"

\* C15: when a request to select a frame (by number other than -1, by pc,
\* by tracepoint, by range or outside a range) is answered with a bare OK,
\* the command succeeds with traceframe_number and tracepoint_number both
\* -1, after flushing the cached frames, marking the registers changed and
\* re-selecting the frame.
C15_BareOKSelectsNothing ==
  /\ pc = "done" /\ cmd.name = "tfind" /\ cmd.stage = "select"
  /\ heard # <<>> /\ LastHeard = OK
  => /\ outcome = "ok"
     /\ traceframe_number = -1 /\ tracepoint_number = -1
     /\ ivar["trace_frame"] = IntV(-1) /\ ivar["tracepoint"] = IntV(-1)
     /\ steps = FullTransition

\* tfind outside, with frame 0 selected, was answered OK
C15_Witness ==
  /\ pc = "done" /\ cmd.name = "tfind" /\ cmd.stage = "select"
  /\ wire # <<>> /\ wire[1].op = "QTFrame:outside"
  /\ heard = <<OK>>
  /\ pre.tfn = 0 /\ traceframe_number = -1

\* the request for frame 5 was answered T7F3F
Tfind5_T7F3F ==
  /\ pc = "done" /\ cmd.name = "tfind"
  /\ wire = <<Pkt("QTFrame", 5, 0)>>
  /\ heard # <<>> /\ LastHeard = <<"T", "7", "F", "3", "F">>

\* C16: tfind 5 answered T7F3F leaves traceframe_number -1 and
\* tracepoint_number 0x7F3F, with $trace_frame -1, the cached frames
\* flushed and the registers marked changed.
C16_TagWithoutFrame ==
  Tfind5_T7F3F
  => /\ outcome = "ok"
     /\ traceframe_number = -1 /\ tracepoint_number = 32575
     /\ ivar["trace_frame"] = IntV(-1)
     /\ SubSeq(steps, 1, 2) = <<"flush", "regs">>

\* tfind 5 was answered T7F3F while frame 0 was selected
C16_Witness ==
  /\ Tfind5_T7F3F
  /\ pre.tfn = 0 /\ traceframe_number = -1 /\ ivar["tracepoint"] = IntV(32575)

\* C17: a request for frame -1 (tfind -1, tfind end, tfind none) answered
\* exactly F-1 leaves traceframe_number and tracepoint_number -1,
\* $trace_line -1 and $trace_func and $trace_file null; any other terminal
\* reply is an error that leaves the cursor and every convenience variable
\* as they were.
C17_EndNeedsExactReply ==
  /\ pc = "done" /\ cmd.name = "tfind" /\ cmd.stage = "end"
  /\ heard # <<>> /\ Terminal(LastHeard)
  => IF LastHeard = <<"F", "-", "1">>
     THEN /\ outcome = "ok"
          /\ traceframe_number = -1 /\ tracepoint_number = -1
          /\ ContextCleared
     ELSE /\ outcome = "error"
          /\ traceframe_number = pre.tfn /\ tracepoint_number = pre.tpn
          /\ ivar = pre.iv
          /\ steps = <<>>

\* tfind end was answered F0 while frame 0 of tracepoint 1 was selected
C17_Witness ==
  /\ pc = "done" /\ cmd.name = "tfind" /\ cmd.stage = "end"
  /\ heard = <<<<"F", "0">>>>
  /\ outcome = "error"
  /\ traceframe_number = 0 /\ ivar["trace_line"] = IntV(10)

\* C14 as stated: when tstart comes to a tracepoint whose QTDP body does
\* not fit the packet buffer, the command fails with the "too complex"
\* error and nothing at all has been sent to the stub.
C14_AsStated ==
  cmd.name = "tstart" /\ cmd.stage = "complex"
    => pc = "done" /\ outcome = "error" /\ wire = <<>>

\* x comes before y in the order of (kind, start); the start of an absolute
\* range is an address
Before(x, y) ==
  \/ x.type < y.type
  \/ /\ x.type = y.type
     /\ IF x.type = 0 THEN UnsignedLess(x.start, y.start)
        ELSE x.start < y.start

\* neighbours are in order, and apart when of one kind
SortedAndApart(list) ==
  \A i \in 1..(Len(list) - 1) :
    /\ Before(list[i], list[i + 1])
    /\ \/ list[i].type # list[i + 1].type
       \/ list[i + 1].start - list[i].end > MAX_REGISTER_VIRTUAL_SIZE

\* memrange_sortmerge has run on both lists
Merged == job.phase \in {"merged", "strung"}

\* C18: after memrange_sortmerge the memranges of a collection list are in
\* the order of (kind, start), and any two neighbours either differ in kind
\* or have list[i+1].start - list[i].end > MAX_REGISTER_VIRTUAL_SIZE.
C18_SortedAndApart ==
  Merged => /\ SortedAndApart(tracepoint_list.list)
            /\ SortedAndApart(stepping_list.list)

\* of three absolute ranges two were merged and the third kept apart
C18_Witness ==
  /\ Merged
  /\ Len(job.items) = 3
  /\ Len(tracepoint_list.list) = 2
  /\ tracepoint_list.list[1].type = 0 /\ tracepoint_list.list[2].type = 0

\* the two ranges x and y become one record
MergeExpected(x, y) ==
  LET prev == IF Before(y, x) THEN y ELSE x
      next == IF Before(y, x) THEN x ELSE y
  IN /\ x.type = y.type
     /\ next.start - prev.end <= MAX_REGISTER_VIRTUAL_SIZE

\* C19: two memranges given to memrange_sortmerge become one record
\* exactly when they are of the same kind and the gap next.start -
\* prev.end, taken in sorted order, is at most MAX_REGISTER_VIRTUAL_SIZE:
\* a gap of MAX_REGISTER_VIRTUAL_SIZE gives one record, one more gives
\* two, and ranges of different kinds are never merged.
C19_MergeUpToGap ==
  Merged /\ Len(job.items) = 2 =>
    LET x == Memrange(job.items[1].type, job.items[1].base,
                      job.items[1].base + job.items[1].len)
        y == Memrange(job.items[2].type, job.items[2].base,
                      job.items[2].base + job.items[2].len)
        n == IF MergeExpected(x, y) THEN 1 ELSE 2
    IN Len(tracepoint_list.list) = n /\ Len(stepping_list.list) = n

\* two ranges exactly MAX_REGISTER_VIRTUAL_SIZE apart, the higher one added
\* first, became one record
C19_Witness ==
  /\ Merged
  /\ job.items = <<Mem(0, MAX_REGISTER_VIRTUAL_SIZE + 2, 2), Mem(0, 0, 2)>>
  /\ tracepoint_list.list = <<Memrange(0, 0, MAX_REGISTER_VIRTUAL_SIZE + 4)>>

\* C20 as stated: the same memranges added to a cleared collection list in
\* two different orders give, after memrange_sortmerge and
\* stringify_collection_list, the same string.
C20_AsStated ==
  job.phase = "strung" /\ job.items # job.other => job.tdp = job.stp

\* bit regno of regs_mask is set
BitSet(mask, regno) ==
  /\ regno < 8 * sizeof_regs_mask
  /\ (mask[regno \div 8] \div Pow2(regno % 8)) % 2 = 1

\* C21 as stated: for every memrange a collection list holds with kind
\* r > 0, bit r of the list's regs_mask is set, also after an add_memrange
\* that ended in an error.
C21_AsStated ==
  \A i \in 1..Len(tracepoint_list.list) :
    tracepoint_list.list[i].type > 0 =>
      BitSet(tracepoint_list.regs_mask, tracepoint_list.list[i].type)

\* the register add_register was last called with
LastRegister == job.items[1].type

\* C22 as stated: add_register (r) with r at the capacity of regs_mask or
\* more ends in the internal error, and no call writes outside regs_mask.
C22_AsStated ==
  job.phase = "add_register" =>
    /\ tracepoint_list.err <=> LastRegister >= 8 * sizeof_regs_mask
    /\ ~tracepoint_list.ub

\* C24 as stated: whichever way the actions sub-prompt is left (the
\* top-level end, an error while a line is validated, an interrupt),
\* immediate_quit, raised by one on entry, is back at the value it had
\* before the command.
C24_AsStated ==
  [][pc = "actions" /\ pc' = "done" => immediate_quit' = immediate_quit - 1]_vars

\* C23 as stated: in every state every tracepoint's step_count is
\* non-negative, and so is the step count tstart gives to sprintf for the
\* <step> field of a QTDP packet.
C23_AsStated ==
  /\ \A i \in 1..Len(tracepoint_chain) : tracepoint_chain[i].step_count >= 0
  /\ \A k \in 1..Len(wire) : wire[k].op = "QTDP" => wire[k].step >= 0

\* the action list of the tracepoint the sub-prompt is for
Edited == tracepoint_chain[cmd.idx].actions
EditedNext == tracepoint_chain'[cmd'.idx].actions

\* validate_actionline does not answer BADLINE nor end in an error
Accepted(line) ==
  validate_actionline(line, tracepoint_chain[cmd.idx]).type
    \in {"GENERIC", "STEPPING", "END"}

\* C25: when the actions sub-prompt of a tracepoint is left by an error or
\* an interrupt the tracepoint's action list is empty, whatever was
\* accepted before and whatever the list held before the command; when it
\* is left normally the list is the accepted lines in the order they were
\* entered, the last of them the terminating end: the command starts from
\* an empty list and every line read either leaves the list alone or, if
\* accepted, is appended to it.
C25_ActionsAllOrNothing ==
  /\ [](pc = "done" /\ cmd.name = "actions" /\ cmd.idx > 0 =>
          IF outcome = "error" THEN Edited = <<>>
          ELSE /\ Edited # <<>>
               /\ Edited[Len(Edited)] = "end"
               /\ \A k \in 1..Len(Edited) : Accepted(Edited[k]))
  /\ [][/\ pc = "idle" /\ pc' = "actions" => EditedNext = <<>>
        /\ pc = "actions" =>
             \/ outcome' = "error" /\ pc' = "done" /\ EditedNext = <<>>
             \/ /\ pc' = "actions"
                /\ \/ EditedNext = Edited
                   \/ \E line \in ScriptLines \cup EditLines :
                        /\ Accepted(line)
                        /\ EditedNext = Append(Edited, line)
             \/ /\ pc' = "done" /\ outcome' = "ok"
                /\ EditedNext = Append(Edited, "end")]_vars

\* the five lines of a list with stepping actions were entered and the
\* sub-prompt returned
C25_Witness ==
  /\ pc = "done" /\ cmd.name = "actions" /\ outcome = "ok" /\ cmd.idx > 0
  /\ Edited = <<"collect x", "while-stepping 3", "collect $reg", "end",
                "end">>

\* the chain after the step is the chain before it with the enabled flag of
\* the tracepoints numbered in T set to flag and nothing else changed
FlagsSet(T, flag) ==
  /\ Len(tracepoint_chain') = Len(tracepoint_chain)
  /\ \A i \in 1..Len(tracepoint_chain) :
       tracepoint_chain'[i] =
         IF tracepoint_chain[i].number \in T
         THEN [tracepoint_chain[i] EXCEPT !.enabled = flag]
         ELSE tracepoint_chain[i]

\* C26: enable and disable change only the enabled flag, and only of
\* tracepoints of the chain (of every one of them when no argument is
\* given): number, address, pass_count, step_count, actions and the order of
\* the chain stay, and no packet is sent; and every QTDP packet a tstart
\* sends carries the flag its tracepoint has then.
C26_EnableDisableFrame ==
  /\ [][pc = "idle" /\ tracepoint_chain' # tracepoint_chain =>
          /\ \/ /\ \E T \in SUBSET Numbers(tracepoint_chain) : FlagsSet(T, TRUE)
                /\ wire' = wire /\ pc' = pc
             \/ ~EnableTraceCommand
          /\ \/ /\ \E T \in SUBSET Numbers(tracepoint_chain) : FlagsSet(T, FALSE)
                /\ wire' = wire /\ pc' = pc
             \/ ~DisableTraceCommand]_vars
  /\ [](\A flag \in BOOLEAN :
          LET all == map_all(tracepoint_chain,
                             IF flag THEN "enable" ELSE "disable") IN
          /\ Len(all) = Len(tracepoint_chain)
          /\ \A i \in 1..Len(all) :
               all[i] = [tracepoint_chain[i] EXCEPT !.enabled = flag])
  /\ [](cmd.name = "tstart" =>
          \A k \in 1..Len(wire) :
            wire[k].op = "QTDP" =>
              \E i \in 1..Len(tracepoint_chain) :
                /\ tracepoint_chain[i].number = wire[k].a
                /\ tracepoint_chain[i].enabled = wire[k].en)

\* a tstart has sent the QTDP of a disabled tracepoint, one with a pass
\* count and actions, and, after it, that of an enabled one
C26_Witness ==
  /\ pc = "done" /\ cmd.name = "tstart" /\ outcome = "ok"
  /\ \E j, k \in 1..Len(wire) :
       /\ j < k
       /\ wire[j].op = "QTDP" /\ ~wire[j].en /\ wire[j].pass = 3
       /\ wire[k].op = "QTDP" /\ wire[k].en
       /\ \E i \in 1..Len(tracepoint_chain) :
            /\ tracepoint_chain[i].number = wire[j].a
            /\ tracepoint_chain[i].actions # <<>>

\* C27: on a remote target tfind with no argument sends the request for
\* frame traceframe_number + 1, or for frame 0 when traceframe_number is
\* -1, and waits for the answer; tfind - sends the request for frame
\* traceframe_number - 1, and when traceframe_number is -1 or 0 it ends
\* in an error with no packet sent and the cursor as it was.
C27_TfindNextPrev ==
  [][/\ TraceFindNextCommand /\ remote =>
          /\ wire' = Append(wire, Pkt("QTFrame",
                                      IF traceframe_number = -1 THEN 0
                                      ELSE traceframe_number + 1, 0))
          /\ pc' = "wait"
     /\ TraceFindPrevCommand /\ remote =>
          IF traceframe_number \in {-1, 0}
          THEN /\ pc' = "done" /\ outcome' = "error"
               /\ wire' = wire /\ wire = <<>>
               /\ Cur' = Cur
          ELSE /\ wire' = Append(wire, Pkt("QTFrame", traceframe_number - 1, 0))
               /\ pc' = "wait"]_vars

\* tfind - was refused at frame 0
C27_Witness ==
  /\ pc = "done" /\ cmd.name = "tfind" /\ outcome = "error" /\ remote
  /\ wire = <<>> /\ traceframe_number = 0

\* line k of the action list is between a while-stepping line and its end
Inside(lines, k) ==
  \E j \in 1..(k - 1) :
    /\ lines[j] = "while-stepping 3"
    /\ \A m \in (j + 1)..(k - 1) : lines[m] # "end"

\* the positions before the terminating end that are, or are not, between
\* a while-stepping line and its end
Routed(lines, stepping) ==
  {k \in 1..Len(lines) :
     /\ Inside(lines, k) = stepping
     /\ \A m \in 1..(k - 1) : lines[m] = "end" => Inside(lines, m)}

\* the tail is the encoding of what the lines at positions P collect: R
\* and a mask with the bit of every register when one of them is collect
\* $reg, then M0,100,4 (x, 4 bytes of absolute memory at 0x100) when one of
\* them is collect x
TailOf(tail, lines, P) ==
  LET regs == \E k \in P : lines[k] = "collect $reg"
      x == \E k \in P : lines[k] = "collect x"
      mask == HexRun(tail, 2, 0)
      rest == IF regs THEN SubSeq(tail, mask.next, Len(tail)) ELSE tail
  IN /\ regs => At(tail, 1) = "R" /\ mask.val = 2 ^ NUM_REGS - 1
     /\ rest = IF x THEN <<"M", "0", ",", "1", "0", "0", ",", "4">>
               ELSE <<>>

TheScript ==
  <<"collect x", "while-stepping 3", "collect $reg", "end", "end">>

\* C28: in every QTDP packet of a tstart the tail before the separator
\* encodes exactly what the collect lines outside while-stepping ... end
\* collect and the tail after it exactly what the collect lines inside
\* collect, lines after the terminating end counting for neither; the
\* separator S is there exactly when there is a stepping tail and stands
\* before it.  For collect x, while-stepping 3, collect $reg, end, end the
\* packet has step count 3, the first tail M0,100,4 and, after S, the
\* second tail R with the bits of all registers.
C28_ActionsRouted ==
  cmd.name = "tstart" =>
    \A k \in 1..Len(wire) :
      wire[k].op = "QTDP" =>
        \E i \in 1..Len(tracepoint_chain) :
          LET t == tracepoint_chain[i] IN
          /\ t.number = wire[k].a
          /\ TailOf(wire[k].tdp, t.actions, Routed(t.actions, FALSE))
          /\ TailOf(wire[k].stp, t.actions, Routed(t.actions, TRUE))
          /\ wire[k].tail =
               wire[k].tdp \o (IF wire[k].stp = <<>> THEN <<>>
                               ELSE <<"S">> \o wire[k].stp)
          /\ t.actions = TheScript =>
               /\ t.step_count = 3 /\ wire[k].step = 3
               /\ wire[k].tdp = <<"M", "0", ",", "1", "0", "0", ",", "4">>
               /\ At(wire[k].stp, 1) = "R"
               /\ HexRun(wire[k].stp, 2, 0) =
                    [val |-> 2 ^ NUM_REGS - 1, next |-> Len(wire[k].stp) + 1]
               /\ Len(wire[k].tail) = Len(wire[k].tdp) + 1 + Len(wire[k].stp)
               /\ wire[k].tail[Len(wire[k].tdp) + 1] = "S"

\* tstart went through with the tracepoint whose actions are collect x,
\* while-stepping 3, collect $reg, end, end
C28_Witness ==
  /\ pc = "done" /\ cmd.name = "tstart" /\ outcome = "ok"
  /\ \E k \in 1..Len(wire) :
       /\ wire[k].op = "QTDP"
       /\ \E i \in 1..Len(tracepoint_chain) :
            /\ tracepoint_chain[i].number = wire[k].a
            /\ tracepoint_chain[i].actions = TheScript

\* C29 as stated: a collect line whose item is a convenience variable other
\* than $reg, $arg, $loc and $(...) is answered BADLINE by the validator,
\* so no action list ever holds such a line.
C29_AsStated ==
  \A i \in 1..Len(tracepoint_chain) :
    \A k \in 1..Len(tracepoint_chain[i].actions) :
      tracepoint_chain[i].actions[k] # "collect $foo"

\* C30 as stated: a collect line with a literal memrange that lacks a
\* comma or the closing parenthesis, or whose size is not positive, is
\* answered like a bad line: the sub-prompt goes on and the action list is
\* what it was.
C30_AsStated ==
  [][\A line \in BadMemranges :
       ReadActionsUpTo({line}, MaxLines) =>
         pc' = "actions" /\ EditedNext = Edited]_vars

\* C30, amended: such a line makes the validator raise an error: the
\* actions command ends there with an error, the sub-prompt is left, the
\* line is not appended and the lines accepted before it are freed, so
\* that the tracepoint's action list is empty.
C30_MemrangeErrorAborts ==
  /\ [][\A line \in BadMemranges :
          ReadActionsUpTo({line}, MaxLines) =>
            /\ pc' = "done" /\ outcome' = "error"
            /\ EditedNext = <<>>
            /\ Len(tracepoint_chain') = Len(tracepoint_chain)]_vars
  /\ [](pc = "done" /\ cmd.name = "actions" /\ cmd.stage = "memrange" =>
          outcome = "error" /\ Edited = <<>>)

\* the sub-prompt was left by the error of a memrange, after a
\* while-stepping line without count had been accepted
C30_Witness ==
  /\ pc = "done" /\ cmd.name = "actions" /\ cmd.stage = "memrange"
  /\ outcome = "error"
  /\ Edited = <<>>
  /\ tracepoint_chain[cmd.idx].step_count = -1

\* where the first M of s is, Len(s) + 1 when it has none
FirstM(s) ==
  IF \E i \in 1..Len(s) : s[i] = "M"
  THEN CHOOSE i \in 1..Len(s) :
         s[i] = "M" /\ \A j \in 1..(i - 1) : s[j] # "M"
  ELSE Len(s) + 1

\* the value of the two hex digits of s at i
ByteAt(s, i) == 16 * HexVal(s[i]) + HexVal(s[i + 1])

RECURSIVE Records(_, _)
\* s from i on read as records M<hex>,<hex>,<hex>: their three numbers each,
\* and "?" where it is not such a record
Records(s, i) ==
  IF i > Len(s) THEN <<>>
  ELSE LET a == HexRun(s, i + 1, 0)
           b == HexRun(s, a.next + 1, 0)
           c == HexRun(s, b.next + 1, 0)
       IN IF /\ s[i] = "M" /\ a.next > i + 1
             /\ At(s, a.next) = "," /\ b.next > a.next + 1
             /\ At(s, b.next) = "," /\ c.next > b.next + 1
          THEN <<<<a.val, b.val, c.val>>>> \o Records(s, c.next)
          ELSE <<"?">>

\* C31: the string stringify_collection_list makes of a list is empty (no
\* string) exactly when no bit of the mask is set and the list has no
\* memrange.  It starts with R exactly when some bit is set, and then
\* holds, two hex digits each, the bytes of the mask from the highest one
\* that is not zero down to byte 0; what follows is one record
\* M<type>,<start>,<end - start> in hex for each memrange, in list order.
C31_Stringify ==
  job.phase = "stringify_collection_list" =>
    LET s == job.tdp
        c == tracepoint_list
        m == FirstM(s)
        n == (m - 2) \div 2
    IN /\ s = <<>> <=> (\A i \in 0..7 : c.regs_mask[i] = 0) /\ c.list = <<>>
       /\ At(s, 1) = "R" <=> \E i \in 0..7 : c.regs_mask[i] # 0
       /\ At(s, 1) = "R" =>
            /\ n >= 1 /\ m = 2 * n + 2
            /\ \A j \in 1..n : /\ IsHex(s[2 * j]) /\ IsHex(s[2 * j + 1])
                                /\ ByteAt(s, 2 * j) = c.regs_mask[n - j]
            /\ n > 1 => c.regs_mask[n - 1] # 0
            /\ \A i \in n..7 : c.regs_mask[i] = 0
       /\ At(s, 1) # "R" => m = 1 \/ s = <<>>
       /\ Records(s, m) =
            [k \in 1..Len(c.list) |->
               <<c.list[k].type, c.list[k].start,
                 c.list[k].end - c.list[k].start>>]

\* the string of a list with register 1, a register in byte 0 or 7 of the
\* mask and two memranges was made, the high bytes skipped
C31_Witness ==
  /\ job.phase = "stringify_collection_list"
  /\ Len(tracepoint_list.list) >= 2
  /\ tracepoint_list.regs_mask[0] # 0
  /\ tracepoint_list.regs_mask[7] = 0
  /\ At(job.tdp, 1) = "R" /\ At(job.tdp, 4) = "M"

RECURSIVE Tokens(_, _)
\* reply from position i on is a sequence of tokens F<hex> and T<hex>, each
\* with at least one hex digit, that ends there or with OK
Tokens(reply, i) ==
  IF At(reply, i) = "" THEN TRUE
  ELSE IF At(reply, i) \in {"F", "T"} /\ IsHex(At(reply, i + 1))
  THEN Tokens(reply, HexRun(reply, i + 1, 0).next)
  ELSE At(reply, i) = "O" /\ At(reply, i + 1) = "K" /\ At(reply, i + 2) = ""

\* C32 as stated: when the terminal reply to a request that selects a frame
\* is not a sequence of F<hex> and T<hex> tokens with an optional trailing
\* OK (F-1 and T-1 among the replies that are not), the command ends in
\* an error before anything is invalidated, and traceframe_number,
\* tracepoint_number and the convenience variables are what they were
\* before the command.
C32_AsStated ==
  /\ pc = "done" /\ cmd.name = "tfind" /\ cmd.stage = "select"
  /\ heard # <<>> /\ Terminal(LastHeard) /\ ~Tokens(LastHeard, 1)
  => /\ outcome = "error"
     /\ traceframe_number = pre.tfn /\ tracepoint_number = pre.tpn
     /\ ivar = pre.iv
     /\ steps = <<>>

\* every address of the ranges in items lies in a memrange of list that has
\* the same type, absolute addresses taken as unsigned
Covered(items, list) ==
  \A k \in 1..Len(items) :
    \A addr \in items[k].base..(items[k].base + items[k].len - 1) :
      \E j \in 1..Len(list) :
        /\ list[j].type = items[k].type
        /\ IF list[j].type = 0
           THEN /\ ~UnsignedLess(addr, list[j].start)
                /\ UnsignedLess(addr, list[j].end)
           ELSE list[j].start <= addr /\ addr < list[j].end

\* C33 as stated: memrange_sortmerge loses no coverage: every address of
\* every memrange that was in the list before it lies in a memrange of the
\* same type after it, also when one range contains or overlaps another.
C33_AsStated ==
  job.phase = "merged" =>
    /\ Covered(job.items, tracepoint_list.list)
    /\ Covered(job.other, stepping_list.list)

\* C34 as stated: after any calls of add_memrange the block allocated for
\* the list has room for next_memrange + 1 memrange records, and no
\* add_memrange has written a record outside it.
C34_AsStated ==
  /\ tracepoint_list.bytes >=
       (Len(tracepoint_list.list) + 1) * sizeof_memrange
  /\ ~tracepoint_list.ub

\* the action list has a while-stepping line
HasStepping(lines) ==
  \E k \in 1..Len(lines) :
    lines[k] \in {"while-stepping 3", "while-stepping", "while-stepping 0"}

\* C35 as stated: when an actions command has returned, the step_count of
\* its tracepoint is not zero only if the action list it now has holds a
\* while-stepping line, and the step field of a QTDP packet is not zero
\* only if the tracepoint's action list holds one (immediate_quit is 0
\* when the last actions command returned normally).
C35_AsStated ==
  /\ pc = "done" /\ cmd.name = "actions" /\ outcome = "ok" /\ cmd.idx > 0 =>
       (tracepoint_chain[cmd.idx].step_count # 0 => HasStepping(Edited))
  /\ cmd.name = "tstart" /\ immediate_quit = 0 =>
       \A k \in 1..Len(wire) :
         wire[k].op = "QTDP" /\ wire[k].step # 0 =>
           \E i \in 1..Len(tracepoint_chain) :
             /\ tracepoint_chain[i].number = wire[k].a
             /\ HasStepping(tracepoint_chain[i].actions)

\* C36 as stated: a turn of the sub-prompt that stays in the sub-prompt
\* either stores a line the validator does not classify as Bad, or (the
\* line being Bad) leaves the tracepoint as it was: the same step_count
\* and the same action list.
C36_AsStated ==
  [][pc = "actions" /\ pc' = "actions" =>
       \/ tracepoint_chain' = tracepoint_chain
       \/ \E line \in EditLines :
            LET v == validate_actionline(line, tracepoint_chain[cmd.idx]) IN
            /\ v.type \in {"GENERIC", "STEPPING", "END"}
            /\ tracepoint_chain' =
                 [tracepoint_chain EXCEPT ![cmd.idx] =
                    [v.t EXCEPT !.actions = Append(@, line)]]]_vars

RECURSIVE Value(_)
\* the number a string of hexadecimal digits writes
Value(digits) ==
  IF digits = <<>> THEN 0
  ELSE Value(SubSeq(digits, 1, Len(digits) - 1)) * 16
       + HexVal(digits[Len(digits)])

\* a request for a frame was answered
TfindAnswered ==
  pc = "done" /\ cmd.name = "tfind" /\ cmd.stage = "select" /\ heard # <<>>

RoutingAfter(lines) ==
  LET before == encode_lines(lines, "tracepoint_list",
                             clear_collection_list, clear_collection_list)
      after == encode_lines(Append(lines, "collect x"), "tracepoint_list",
                            clear_collection_list, clear_collection_list)
  IN IF Len(after.tl.list) > Len(before.tl.list) THEN "tracepoint_list"
     ELSE IF Len(after.sl.list) > Len(before.sl.list) THEN "stepping_list"
     ELSE "halted"

\* C38: whenever the sub-prompt asks for a line, encode_actions run over
\* the lines stored so far stands at the tracepoint's list if the prompt is
\* the top-level one and at the stepping list if it is the while-stepping
\* one, also after a while-stepping line entered inside while-stepping; and
\* when the actions command has returned normally encode_actions halts at
\* the last stored line and not before it.
C38_RoutingAgrees ==
  /\ pc = "actions" =>
       RoutingAfter(Edited) =
         (IF cmd.stage = "p1" THEN "tracepoint_list" ELSE "stepping_list")
  /\ pc = "done" /\ cmd.name = "actions" /\ outcome = "ok" /\ cmd.idx > 0 =>
       /\ Edited # <<>>
       /\ RoutingAfter(Edited) = "halted"
       /\ RoutingAfter(SubSeq(Edited, 1, Len(Edited) - 1)) = "tracepoint_list"

\* the actions command returned normally with a list in which a
\* while-stepping line stands inside while-stepping, followed by a collect
\* line and the two ends
C38_Witness ==
  /\ pc = "done" /\ cmd.name = "actions" /\ outcome = "ok" /\ cmd.idx > 0
  /\ Edited = <<"while-stepping 3", "while-stepping 3", "collect x", "end",
                "end">>

\* the tracepoints of a are tracepoints of b, in the order of b
RECURSIVE Within(_, _)
Within(a, b) ==
  IF a = <<>> THEN TRUE
  ELSE IF b = <<>> THEN FALSE
  ELSE IF Head(a) = Head(b) THEN Within(Tail(a), Tail(b))
  ELSE Within(a, Tail(b))

\* C39 as stated: a command that takes tracepoints off the chain leaves the
\* others as they were and in their order; delete tracepoints without a
\* number, confirmed, leaves the chain empty and its walk over the chain
\* never reads the successor link out of a freed tracepoint, so that it
\* cannot end early or fault.
C39_AsStated ==
  [][/\ pc = "idle" /\ Len(tracepoint_chain') < Len(tracepoint_chain)
        => Within(tracepoint_chain', tracepoint_chain)
     /\ DeleteAllTraceCommand
        => tracepoint_chain' = <<>> /\ pc' = "idle"]_vars

\* a console packet or a register packet
Noise(buf) ==
  /\ buf # <<>>
  /\ \/ buf[1] = "R"
     \/ buf[1] = "O" /\ At(buf, 2) # "K"

\* remote_get_noisy_reply comes to an end: every wait for the reply to the
\* n-th packet of a command is over at some time
WaitEnds ==
  \A n \in 1..3 :
    (pc = "wait" /\ Len(wire) = n) ~> ~(pc = "wait" /\ Len(wire) = n)

\* a step in which a console packet or a register packet is delivered
\* leaves the command waiting for the reply to the same packet
NoiseWaits ==
  [][pc = "wait" /\ heard' # heard /\ Noise(heard'[Len(heard')])
       => pc' = "wait" /\ wire' = wire /\ outcome' = outcome]_vars

====
